---- MODULE Spec2Model ----
(***************************************************************************)
(* State-machine model of the Steel MCP server (src/src/index.ts): the     *)
(* SteelSessionManager, the tool dispatcher handleToolCall, the tool       *)
(* handlers, the screenshot store and the resource request handlers,       *)
(* against the remote session service and the puppeteer transport.         *)
(*                                                                         *)
(* Granularity: one step per function entry and one step per resumption    *)
(* after an await; the synchronous code between two awaits is one step.    *)
(* A session id is a number 1..MaxSessions; NULL (0) is null/undefined.    *)
(* A browser or page handle is identified by the session id whose          *)
(* transport endpoint it was connected to.                                 *)
(*                                                                         *)
(* Environment assumptions: the service issues a fresh id for every        *)
(* session it creates; a connected browser has at least one open page      *)
(* (pages() either rejects or yields a first page); a page operation       *)
(* succeeds only while the session is live and the transport is open.      *)
(***************************************************************************)
EXTENDS Integers, Sequences, FiniteSets, TLC

\* Bound on the number of direct calls of the manager's methods in one run,
\* and on the number of tool invocations in the runs that exercise the
\* resource store.
MaxOps == 3

\* Bound on the number of tool invocations in one run.
MaxCalls == 2

\* Capacity of the remote service: it refuses a create request once it has
\* created this many sessions.
MaxSessions == 2

Sids == 1..MaxSessions

NULL == 0

Procs == {"a", "b"}

-----------------------------------------------------------------------------
(* JavaScript values of tool arguments *)

Undefined == [type |-> "undefined", num |-> 0, str |-> ""]

JsNum(n) == [type |-> "number", num |-> n, str |-> ""]

JsStr(s) == [type |-> "string", num |-> 0, str |-> s]

JsBool(b) == [type |-> "boolean", num |-> IF b THEN 1 ELSE 0, str |-> ""]

\* JavaScript truthiness, as used by `!x`
Truthy(v) ==
  CASE v.type = "undefined" -> FALSE
    [] v.type = "number" -> v.num # 0
    [] v.type = "string" -> v.str # ""
    [] OTHER -> v.num = 1

NoArgs ==
  [url |-> Undefined, query |-> Undefined, label |-> Undefined,
   text |-> Undefined, replaceText |-> Undefined, pixels |-> Undefined,
   seconds |-> Undefined, resourceName |-> Undefined]

-----------------------------------------------------------------------------
(* Strings the code inspects character by character *)

HttpPrefix == <<"h", "t", "t", "p", ":", "/", "/">>

HttpsPrefix == <<"h", "t", "t", "p", "s", ":", "/", "/">>

toLowerChar(c) ==
  CASE c = "H" -> "h"
    [] c = "T" -> "t"
    [] c = "P" -> "p"
    [] c = "S" -> "s"
    [] c = "F" -> "f"
    [] c = "X" -> "x"
    [] OTHER -> c

toLowerCase(s) == [i \in 1..Len(s) |-> toLowerChar(s[i])]

startsWith(s, prefix) ==
  /\ Len(s) >= Len(prefix)
  /\ SubSeq(s, 1, Len(prefix)) = prefix

\* String.prototype.indexOf: the first position of pat in s at or after
\* position from, 0 if there is none
RECURSIVE indexOf(_, _, _)
indexOf(s, pat, from) ==
  IF from + Len(pat) - 1 > Len(s) THEN 0
  ELSE IF SubSeq(s, from, from + Len(pat) - 1) = pat THEN from
  ELSE indexOf(s, pat, from + 1)

\* String.prototype.replace with a string pattern: the first occurrence of pat
\* in s (compared character by character, case included) is replaced
replaceFirst(s, pat, by) ==
  LET i == indexOf(s, pat, 1)
  IN IF i = 0 THEN s
     ELSE SubSeq(s, 1, i - 1) \o by \o SubSeq(s, i + Len(pat), Len(s))

\* s.split(sep)[1]: what lies between the first occurrence of sep and the
\* next one (or the end of s); <<"undefined">> if sep does not occur
splitSecond(s, sep) ==
  LET i == indexOf(s, sep, 1)
  IN IF i = 0 THEN <<"undefined">>
     ELSE LET rest == SubSeq(s, i + Len(sep), Len(s))
              j == indexOf(rest, sep, 1)
          IN IF j = 0 THEN rest ELSE SubSeq(rest, 1, j - 1)

WsPrefix == <<"w", "s", ":", "/", "/">>

WssPrefix == <<"w", "s", "s", ":", "/", "/">>

\* the decimal digits; DecimalChars(n) is `${n}` for a number below ten
Digits == <<"0", "1", "2", "3", "4", "5", "6", "7", "8", "9">>

DecimalChars(n) == <<Digits[n + 1]>>

\* Base URLs the environment may configure (host abbreviated to one character).
BaseURLs ==
  { <<"h", "t", "t", "p", ":", "/", "/", "x">>,
    <<"f", "t", "p", ":", "/", "/", "x">> }

DefaultCloudURL == <<"h", "t", "t", "p", "s", ":", "/", "/", "x">>

-----------------------------------------------------------------------------
VARIABLES
  steelLocal,         \* configuration: STEEL_LOCAL === "true"
  globalWaitSeconds,  \* configuration: GLOBAL_WAIT_SECONDS
  steelBaseURL,       \* configuration: STEEL_BASE_URL
  sessionId,          \* SteelSessionManager.sessionId
  browser,            \* SteelSessionManager.browser
  page,               \* SteelSessionManager.page
  isInitialized,      \* SteelSessionManager.isInitialized
  status,             \* remote service: status of every session id
  transport,          \* puppeteer transport of every session id
  released,           \* remote service: ids a release was requested for
  nextId,             \* remote service: the next fresh session id
  createReqs,         \* number of create requests issued so far
  nOps,               \* number of operations started so far
  setupDone,          \* the held page, once it went through the whole of setupPage
  proc,               \* every invocation's position, stack and locals
  obs,                \* what was observed during an invocation (history)
  disturbed,          \* history: a creation failed, handleError recreated, or cleanup ran
  lastCreationFailed, \* history: the most recent creation attempt failed
  staleSid,           \* history: id found not live by the last handleError that recreated
  cleanedSid,         \* history: id of the live session the last operation, a cleanup, started on
  screenshots,        \* the resource store: Map of resource name to image bytes, in insertion order
  resp,               \* the response of the resource request being answered
  fn                  \* a function of the program applied to drawn inputs, with its result

cfgVars == <<steelLocal, globalWaitSeconds, steelBaseURL>>

mgrVars == <<sessionId, browser, page, isInitialized>>

svcVars == <<status, transport, released, nextId, createReqs, nOps>>

histVars == <<disturbed, lastCreationFailed, staleSid, cleanedSid>>

auxVars == <<screenshots, resp, fn>>

\* The bytes of a screenshot are identified by the invocation that took it
\* and by whether the page carried its annotations.
Bytes(n, marked) == [shot |-> n, marked |-> marked]

NoBytes == Bytes(0, FALSE)

\* no resource request is being answered
NoResp == [kind |-> "none", uri |-> <<>>, uris |-> <<>>, error |-> FALSE,
           blob |-> NoBytes]

\* no function has been applied
NoFn == [f |-> "none", in |-> <<>>, out |-> <<>>]

vars ==
  <<steelLocal, globalWaitSeconds, steelBaseURL, sessionId, browser, page,
    isInitialized, status, transport, released, nextId, createReqs, nOps,
    setupDone,
    proc, obs, disturbed, lastCreationFailed, staleSid, cleanedSid,
    screenshots, resp, fn>>

-----------------------------------------------------------------------------
(* The tool surface and the inputs of a tool invocation *)

TOOLS ==
  {"navigate", "search", "click", "type", "scroll_down", "scroll_up",
   "go_back", "wait", "save_unmarked_screenshot"}

Call(name, args) == [name |-> name, args |-> args]

ToolCalls ==
  { Call("navigate", NoArgs),
    Call("navigate", [NoArgs EXCEPT !.url = JsStr("example.com")]),
    Call("search", NoArgs),
    Call("click", NoArgs),
    Call("click", [NoArgs EXCEPT !.label = JsNum(0)]),
    Call("click", [NoArgs EXCEPT !.label = JsNum(1)]),
    Call("type", [NoArgs EXCEPT !.label = JsNum(1)]),
    Call("type", [NoArgs EXCEPT !.label = JsNum(1), !.text = JsStr("def")]),
    Call("scroll_down", NoArgs),
    Call("scroll_up", [NoArgs EXCEPT !.pixels = JsNum(100)]),
    Call("go_back", NoArgs),
    Call("wait", NoArgs),
    Call("wait", [NoArgs EXCEPT !.seconds = JsNum(5)]),
    Call("wait", [NoArgs EXCEPT !.seconds = JsNum(15)]),
    Call("save_unmarked_screenshot", NoArgs),
    Call("bogus", NoArgs) }

\* the public methods of SteelSessionManager
Methods == {"ensureSession", "initialize", "handleError", "cleanup"}

-----------------------------------------------------------------------------
(* Locals of an invocation *)

IdleProc ==
  [pc |-> "idle", stack |-> <<>>, kind |-> "none", name |-> "none",
   args |-> NoArgs, retPage |-> NULL, retBool |-> FALSE, exc |-> "none",
   locPage |-> NULL, arg |-> NULL, ops |-> <<>>, caught |-> {},
   hres |-> "none", result |-> "none", err |-> "none", steps |-> <<>>,
   isError |-> FALSE, content |-> <<>>, detail |-> "none", image |-> NoBytes]

IdleObs ==
  [heObs |-> "none", heEntrySid |-> NULL, heCreates |-> 0, heCalls |-> 0,
   heNew |-> 0, opCreates |-> 0, opRetrieves |-> 0, opReleases |-> 0,
   opConnects |-> 0, handlerConnErr |-> FALSE, handlerRan |-> 0,
   startSid |-> NULL, startLive |-> FALSE, creationFailed |-> FALSE,
   esAfterFail |-> FALSE, esStale |-> NULL, inHE |-> FALSE,
   acquireFailed |-> FALSE, esCleaned |-> NULL, startReady |-> FALSE,
   startUninit |-> FALSE, startReqs |-> 0, created |-> NULL,
   supSid |-> NULL, supBrowser |-> NULL, supCreates |-> 0,
   startMgr |-> <<NULL, NULL, NULL, FALSE>>]

\* return from an async function: the awaiting caller resumes at its label
Return(r) ==
  [r EXCEPT !.pc = Head(r.stack), !.stack = Tail(r.stack), !.exc = "none",
            !.arg = NULL]

ReturnPage(r, v) == [Return(r) EXCEPT !.retPage = v]

ReturnBool(r, b) == [Return(r) EXCEPT !.retBool = b]

\* a rejection: the awaiting caller resumes at its label with the exception
Throw(r, e) ==
  [r EXCEPT !.pc = Head(r.stack), !.stack = Tail(r.stack), !.exc = e,
            !.arg = NULL]

\* call of an async function whose result is awaited at label `resume`
Invoke(r, entry, resume) ==
  [r EXCEPT !.pc = entry, !.stack = <<resume>> \o r.stack, !.exc = "none"]

Alive(s) == s # NULL /\ status[s] = "live" /\ transport[s] = "open"

\* Outcomes of a puppeteer operation on the page or browser of session s.
PageOpOutcomes(s) ==
  IF s = NULL THEN {"TypeError"}
  ELSE IF Alive(s) THEN {"ok", "action"}
  ELSE {"conn"}

SetProc(p, r) == proc' = [proc EXCEPT ![p] = r]

SetObs(p, o) == obs' = [obs EXCEPT ![p] = o]

-----------------------------------------------------------------------------
Init ==
  /\ steelLocal \in BOOLEAN
  /\ globalWaitSeconds \in {0, 1}
  /\ steelBaseURL \in (IF steelLocal THEN BaseURLs ELSE {DefaultCloudURL})
  /\ sessionId = NULL
  /\ browser = NULL
  /\ page = NULL
  /\ isInitialized = FALSE
  /\ status = [s \in Sids |-> "none"]
  /\ transport = [s \in Sids |-> "none"]
  /\ released = {}
  /\ nextId = 1
  /\ createReqs = 0
  /\ nOps = 0
  /\ setupDone = {}
  /\ proc = [p \in Procs |-> IdleProc]
  /\ obs = [p \in Procs |-> IdleObs]
  /\ disturbed = FALSE
  /\ lastCreationFailed = FALSE
  /\ staleSid = NULL
  /\ cleanedSid = NULL
  /\ screenshots = <<>>
  /\ resp = NoResp
  /\ fn = NoFn

-----------------------------------------------------------------------------
(* Start of an operation: a tool invocation, or a direct call of one of the *)
(* manager's public methods.                                                *)

EntryOf(kind) ==
  CASE kind = "tool" -> "es"
    [] kind = "ensureSession" -> "es"
    [] kind = "initialize" -> "init"
    [] kind = "handleError" -> "he"
    [] OTHER -> "cl"

Begin(p, kind) ==
  LET acquires == kind \in {"tool", "ensureSession"}
  IN /\ proc[p].pc = "idle"
     /\ nOps' = nOps + 1
     /\ SetProc(p, [IdleProc EXCEPT
            !.pc = EntryOf(kind),
            !.stack = IF kind = "tool" THEN <<"tc_afterES", "done">>
                      ELSE <<"done">>,
            !.kind = kind,
            !.steps = IF kind = "tool" THEN <<"acquire">> ELSE <<>>])
     /\ SetObs(p, [IdleObs EXCEPT
            !.startSid = sessionId,
            !.startLive = sessionId # NULL /\ status[sessionId] = "live",
            !.esAfterFail = acquires /\ lastCreationFailed,
            !.esStale = IF acquires THEN staleSid ELSE NULL,
            !.esCleaned = IF acquires THEN cleanedSid ELSE NULL,
            !.startUninit = /\ sessionId = NULL
                             /\ browser = NULL
                             /\ ~isInitialized,
            !.startReqs = createReqs,
            !.startMgr = IF kind = "handleError" THEN mgrVars
                         ELSE IdleObs.startMgr,
            !.startReady = /\ sessionId # NULL
                           /\ browser = sessionId
                           /\ page = sessionId
                           /\ setupDone = {page}])
     /\ disturbed' = (disturbed \/ kind = "cleanup")
     /\ lastCreationFailed' = FALSE
     /\ staleSid' = NULL
     /\ cleanedSid' = (IF kind = "cleanup" /\ sessionId # NULL
                          /\ status[sessionId] = "live"
                       THEN sessionId ELSE NULL)
     /\ UNCHANGED <<cfgVars, auxVars,
                    mgrVars, status, transport, released, nextId,
                    createReqs, setupDone>>

\* A CallTool request arrives: handleToolCall starts with ensureSession().
\* The name and arguments of the request are drawn where handleToolCall first
\* reads them (toolCallDispatch); until then they do not influence it.
CallTool(p) ==
  /\ nOps < MaxCalls
  /\ Begin(p, "tool")

\* One of the manager's public methods is called directly.
CallMethod(p) ==
  /\ nOps < MaxOps
  /\ \E kind \in Methods : Begin(p, kind)

\* The operation has returned (or raised) to its caller.
Finish(p) ==
  /\ proc[p].pc = "done"
  /\ SetProc(p, IdleProc)
  /\ SetObs(p, IdleObs)
  /\ UNCHANGED <<cfgVars, auxVars, mgrVars, svcVars, setupDone, histVars>>

-----------------------------------------------------------------------------
(* SteelSessionManager.ensureSession and initialize *)

\* variant of the test of ensureSession with the condition inverted
ensureSessionMustInitialize_Inverted == sessionId # NULL

\* variant of ensureSession with a single-flight guard: no creation is started
\* while another invocation's creation is pending
ensureSessionMustInitialize_SingleFlight ==
  /\ sessionId = NULL
  /\ \A q \in Procs : proc[q].pc # "cns_create"

\* index.ts:276  if (!this.sessionId)
ensureSessionMustInitialize == sessionId = NULL

\* variant of ensureSession that verifies a held session with the service
\* before handing out its page
ensureSessionHeld_Verifying(r) ==
  [r EXCEPT !.pc = "he_retrieve", !.arg = sessionId]

\* index.ts:279  return this.page!  (a held session is handed out unchecked)
ensureSessionHeld(r) == ReturnPage(r, page)

ensureSession(p) ==
  /\ proc[p].pc = "es"
  /\ SetProc(p, IF ensureSessionMustInitialize
                THEN [proc[p] EXCEPT !.pc = "init"]
                ELSE ensureSessionHeld(proc[p]))
  /\ UNCHANGED <<cfgVars, auxVars, mgrVars, svcVars, setupDone, obs, histVars>>

\* index.ts:253  if (this.isInitialized)
initializeIsDone == isInitialized

initialize(p) ==
  /\ proc[p].pc = "init"
  /\ SetProc(p, IF initializeIsDone
                THEN ReturnPage(proc[p], page)
                ELSE Invoke(proc[p], "cns", "init_after"))
  /\ UNCHANGED <<cfgVars, auxVars, mgrVars, svcVars, setupDone, obs, histVars>>

\* variant of initialize that sets the flag whatever createNewSession did
initializeMarks_Always(failed) == TRUE

\* index.ts:257-258  this.isInitialized = true is reached only when the
\* awaited createNewSession() did not raise
initializeMarks(failed) == ~failed

\* initialize resumes after `await this.createNewSession()`
initializeAfterCreate(p) ==
  /\ proc[p].pc = "init_after"
  /\ LET failed == proc[p].exc # "none"
     IN /\ SetProc(p, IF failed THEN Throw(proc[p], proc[p].exc)
                      ELSE ReturnPage(proc[p], page))
        /\ isInitialized' = (IF initializeMarks(failed) THEN TRUE
                             ELSE isInitialized)
        /\ SetObs(p, [obs[p] EXCEPT !.creationFailed = @ \/ failed])
        /\ lastCreationFailed' = failed
        /\ disturbed' = (disturbed \/ failed)
  /\ UNCHANGED <<cfgVars, auxVars,
                 sessionId, browser, page, svcVars, setupDone, staleSid,
                 cleanedSid>>

-----------------------------------------------------------------------------
(* SteelSessionManager.createNewSession, createSteelSession and setupPage *)

\* variant of createNewSession that never cleans up first
createNewSessionCleansUp_Never == FALSE

\* index.ts:288  if (this.browser)
createNewSessionCleansUp == browser # NULL

createNewSession(p) ==
  /\ proc[p].pc = "cns"
  /\ SetProc(p, IF createNewSessionCleansUp
                THEN Invoke(proc[p], "cl", "cns_afterCleanup")
                ELSE [proc[p] EXCEPT !.pc = "cns_create"])
  /\ SetObs(p, [obs[p] EXCEPT
         !.supSid = IF createNewSessionCleansUp THEN sessionId ELSE NULL,
         !.supBrowser = IF createNewSessionCleansUp THEN browser ELSE NULL,
         !.supCreates = obs[p].opCreates])
  /\ UNCHANGED <<cfgVars, auxVars, mgrVars, svcVars, setupDone, histVars>>

createNewSessionAfterCleanup(p) ==
  /\ proc[p].pc = "cns_afterCleanup"
  /\ SetProc(p, [proc[p] EXCEPT !.pc = "cns_create"])
  /\ UNCHANGED <<cfgVars, auxVars, mgrVars, svcVars, setupDone, obs, histVars>>

\* index.ts:316-324  the scheme test of the local endpoint derivation
localEndpointDerivable(url) ==
  \/ startsWith(toLowerCase(url), HttpPrefix)
  \/ startsWith(toLowerCase(url), HttpsPrefix)

\* index.ts:302  this.sessionId = session.id
storedSessionId(created) == created

\* createSteelSession's POST completes; then this.sessionId is assigned, the
\* transport endpoint is derived and puppeteer.connect is issued.
createSteelSession(p) ==
  /\ proc[p].pc = "cns_create"
  /\ createReqs' = createReqs + 1
  /\ \E ok \in BOOLEAN :
       IF ok /\ nextId <= MaxSessions
       THEN /\ status' = [status EXCEPT ![nextId] = "live"]
            /\ SetObs(p, [obs[p] EXCEPT
                   !.opCreates = @ + 1,
                   !.heCreates = IF obs[p].inHE THEN @ + 1 ELSE @,
                   !.created = nextId])
            /\ nextId' = nextId + 1
            /\ sessionId' = storedSessionId(nextId)
            /\ SetProc(p, IF steelLocal /\ ~localEndpointDerivable(steelBaseURL)
                          THEN Throw(proc[p], "Invalid Steel base URL")
                          ELSE [proc[p] EXCEPT !.pc = "cns_connect",
                                               !.arg = storedSessionId(nextId)])
       ELSE /\ SetProc(p, Throw(proc[p], "create"))
            /\ SetObs(p, [obs[p] EXCEPT
                   !.opCreates = @ + 1,
                   !.heCreates = IF obs[p].inHE THEN @ + 1 ELSE @])
            /\ UNCHANGED <<status, nextId, sessionId>>
  /\ UNCHANGED <<cfgVars, auxVars,
                 browser, page, isInitialized, transport, released,
                 nOps, setupDone, histVars>>

\* puppeteer.connect completes; then this.browser.pages() is issued.
connectBrowser(p) ==
  /\ proc[p].pc = "cns_connect"
  /\ LET s == proc[p].arg
     IN /\ SetObs(p, [obs[p] EXCEPT !.opConnects = @ + 1])
        /\ \E ok \in (IF s # NULL /\ status[s] = "live" THEN BOOLEAN ELSE {FALSE}) :
             IF ok
             THEN /\ transport' = [transport EXCEPT ![s] = "open"]
                  /\ browser' = s
                  /\ SetProc(p, [proc[p] EXCEPT !.pc = "cns_pages"])
             ELSE /\ SetProc(p, Throw(proc[p], "connect"))
                  /\ UNCHANGED <<transport, browser>>
  /\ UNCHANGED <<cfgVars, auxVars,
                 sessionId, page, isInitialized, status, released,
                 nextId, createReqs, nOps, setupDone, histVars>>

\* variant of createNewSession that leaves this.page as it was
firstOpenPage_Unassigned(b) == page

\* index.ts:340  this.page = pages[0]
firstOpenPage(b) == b

\* browser.pages() completes; this.page = pages[0]; then setupPage is called.
firstPage(p) ==
  /\ proc[p].pc = "cns_pages"
  /\ \E out \in PageOpOutcomes(proc[p].arg) :
       IF out = "ok"
       THEN /\ page' = firstOpenPage(proc[p].arg)
            /\ setupDone' = {}
            /\ SetProc(p, [proc[p] EXCEPT !.pc = "sp"])
       ELSE /\ SetProc(p, Throw(proc[p], out))
            /\ UNCHANGED <<page, setupDone>>
  /\ UNCHANGED <<cfgVars, auxVars,
                 sessionId, browser, isInitialized, svcVars, obs,
                 histVars>>

setupPage(p) ==
  /\ proc[p].pc = "sp"
  /\ SetProc(p, IF page = NULL THEN Return(proc[p])
                ELSE Invoke(proc[p], "imp", "sp_afterInject"))
  /\ UNCHANGED <<cfgVars, auxVars, mgrVars, svcVars, setupDone, obs, histVars>>

\* setupPage resumes after injectMarkPageScript and issues setViewport.
setupPageViewport(p) ==
  /\ proc[p].pc = "sp_afterInject"
  /\ SetProc(p, IF proc[p].exc # "none" THEN Throw(proc[p], proc[p].exc)
                ELSE IF page = NULL THEN Throw(proc[p], "TypeError")
                ELSE [proc[p] EXCEPT !.pc = "sp_viewport", !.arg = page])
  /\ UNCHANGED <<cfgVars, auxVars, mgrVars, svcVars, setupDone, obs, histVars>>

\* setViewport completes; then the console listener is attached.
setupPageListener(p) ==
  /\ proc[p].pc = "sp_viewport"
  /\ \E out \in PageOpOutcomes(proc[p].arg) :
       IF out # "ok"
       THEN /\ SetProc(p, Throw(proc[p], out))
            /\ UNCHANGED setupDone
       ELSE IF page = NULL
       THEN /\ SetProc(p, Throw(proc[p], "TypeError"))
            /\ UNCHANGED setupDone
       ELSE /\ SetProc(p, Return(proc[p]))
            /\ setupDone' = {page}
  /\ UNCHANGED <<cfgVars, auxVars, mgrVars, svcVars, obs, histVars>>

-----------------------------------------------------------------------------
(* SteelSessionManager.injectMarkPageScript *)

injectMarkPageScript(p) ==
  /\ proc[p].pc = "imp"
  /\ SetProc(p, IF page = NULL THEN Return(proc[p])
                ELSE [proc[p] EXCEPT !.pc = "imp_eond", !.arg = page])
  /\ UNCHANGED <<cfgVars, auxVars, mgrVars, svcVars, setupDone, obs, histVars>>

\* evaluateOnNewDocument completes; then this.page.evaluate is issued.
injectOnNewDocument(p) ==
  /\ proc[p].pc = "imp_eond"
  /\ \E out \in PageOpOutcomes(proc[p].arg) :
       SetProc(p, IF out # "ok" THEN Throw(proc[p], out)
                  ELSE IF page = NULL THEN Throw(proc[p], "TypeError")
                  ELSE [proc[p] EXCEPT !.pc = "imp_eval", !.arg = page])
  /\ UNCHANGED <<cfgVars, auxVars, mgrVars, svcVars, setupDone, obs, histVars>>

\* page.evaluate(markPage) completes.
injectEvaluate(p) ==
  /\ proc[p].pc = "imp_eval"
  /\ \E out \in PageOpOutcomes(proc[p].arg) :
       SetProc(p, IF out # "ok" THEN Throw(proc[p], out) ELSE Return(proc[p]))
  /\ UNCHANGED <<cfgVars, auxVars, mgrVars, svcVars, setupDone, obs, histVars>>

-----------------------------------------------------------------------------
(* SteelSessionManager.cleanup *)

\* variant of the reset of cleanup that keeps the session id
resetState_KeepsSession ==
  /\ sessionId' = sessionId
  /\ browser' = NULL
  /\ page' = NULL
  /\ isInitialized' = FALSE

\* variant of the reset of cleanup that keeps the initialization flag
resetState_KeepsInitialized ==
  /\ sessionId' = NULL
  /\ browser' = NULL
  /\ page' = NULL
  /\ isInitialized' = isInitialized

\* index.ts:421-424
resetState ==
  /\ sessionId' = NULL
  /\ browser' = NULL
  /\ page' = NULL
  /\ isInitialized' = FALSE

\* variant of cleanup that never requests a release
cleanupReleases_Never == FALSE

\* variant of the release test of cleanup that ignores the mode
cleanupReleases_IgnoresMode == sessionId # NULL

\* index.ts:405  if (!this.steelLocal && this.sessionId)
cleanupReleases == ~steelLocal /\ sessionId # NULL

cleanup(p) ==
  /\ proc[p].pc = "cl"
  /\ IF cleanupReleases
     THEN /\ SetProc(p, [proc[p] EXCEPT !.pc = "cl_release", !.arg = sessionId])
          /\ UNCHANGED <<mgrVars, setupDone>>
     ELSE IF browser # NULL
     THEN /\ SetProc(p, [proc[p] EXCEPT !.pc = "cl_close", !.arg = browser])
          /\ UNCHANGED <<mgrVars, setupDone>>
     ELSE /\ SetProc(p, Return(proc[p]))
          /\ resetState
          /\ setupDone' = {}
  /\ UNCHANGED <<cfgVars, auxVars, svcVars, obs, histVars>>

\* steel.sessions.release completes (a failure is caught and logged).
cleanupRelease(p) ==
  /\ proc[p].pc = "cl_release"
  /\ released' = released \cup {proc[p].arg}
  /\ SetObs(p, [obs[p] EXCEPT !.opReleases = @ + 1])
  /\ \E ok \in BOOLEAN :
       status' = IF ok THEN [status EXCEPT ![proc[p].arg] = "released"] ELSE status
  /\ IF browser # NULL
     THEN /\ SetProc(p, [proc[p] EXCEPT !.pc = "cl_close", !.arg = browser])
          /\ UNCHANGED <<mgrVars, setupDone>>
     ELSE /\ SetProc(p, Return(proc[p]))
          /\ resetState
          /\ setupDone' = {}
  /\ UNCHANGED <<cfgVars, auxVars,
                 transport, nextId, createReqs, nOps, histVars>>

\* browser.close() completes; the state is reset.  close() rejects only on a
\* connection that is already gone (caught and logged), so the transport is
\* closed either way.
cleanupClose(p) ==
  /\ proc[p].pc = "cl_close"
  /\ \E ok \in (IF Alive(proc[p].arg) THEN {TRUE} ELSE BOOLEAN) :
       transport' = [transport EXCEPT ![proc[p].arg] = "closed"]
  /\ SetProc(p, Return(proc[p]))
  /\ resetState
  /\ setupDone' = {}
  /\ UNCHANGED <<cfgVars, auxVars,
                 status, released, nextId, createReqs, nOps, obs,
                 histVars>>

-----------------------------------------------------------------------------
(* SteelSessionManager.handleError *)

\* variant of the status test of handleError with the comparison inverted
handleErrorRecreates_Inverted(st) == st = "live"

\* index.ts:387  if (session.status !== "live")
handleErrorRecreates(st) == st # "live"

\* variant of handleError that tears the session down before reporting that
\* the error is unrelated to it
handleErrorUnrelated_Releasing(r) == [r EXCEPT !.pc = "cl", !.retBool = FALSE]

\* index.ts:391  return false  (the session is live)
handleErrorUnrelated(r) == ReturnBool(r, FALSE)

handleError(p) ==
  /\ proc[p].pc = "he"
  /\ IF sessionId = NULL
     THEN /\ SetProc(p, ReturnBool(proc[p], FALSE))
          /\ SetObs(p, [obs[p] EXCEPT !.heCalls = @ + 1, !.heObs = "noid",
                                      !.heEntrySid = NULL])
     ELSE /\ SetProc(p, [proc[p] EXCEPT !.pc = "he_retrieve", !.arg = sessionId])
          /\ SetObs(p, [obs[p] EXCEPT !.heCalls = @ + 1, !.inHE = TRUE,
                                      !.heEntrySid = sessionId])
  /\ UNCHANGED <<cfgVars, auxVars, mgrVars, svcVars, setupDone, histVars>>

\* steel.sessions.retrieve completes or rejects.
handleErrorRetrieve(p) ==
  /\ proc[p].pc = "he_retrieve"
  /\ \E ok \in BOOLEAN :
       LET st == status[proc[p].arg]
           o == [obs[p] EXCEPT !.opRetrieves = @ + 1,
                               !.heObs = IF ok THEN st ELSE "retrieveFailed"]
       IN IF ~ok
          THEN /\ SetProc(p, Invoke(proc[p], "cns", "he_catchDone"))
               /\ SetObs(p, o)
               /\ disturbed' = TRUE
          ELSE IF handleErrorRecreates(st)
          THEN /\ SetProc(p, Invoke(proc[p], "cns", "he_tryDone"))
               /\ SetObs(p, o)
               /\ disturbed' = TRUE
          ELSE /\ SetProc(p, handleErrorUnrelated(proc[p]))
               /\ SetObs(p, [o EXCEPT !.inHE = FALSE])
               /\ UNCHANGED disturbed
  /\ UNCHANGED <<cfgVars, auxVars,
                 mgrVars, svcVars, setupDone, lastCreationFailed, staleSid,
                 cleanedSid>>

\* handleError resumes after the createNewSession of its try block; a
\* rejection is caught by the same catch clause, which creates again.
handleErrorTryDone(p) ==
  /\ proc[p].pc = "he_tryDone"
  /\ LET failed == proc[p].exc # "none"
     IN /\ SetProc(p, IF failed THEN Invoke(proc[p], "cns", "he_catchDone")
                      ELSE ReturnBool(proc[p], TRUE))
        /\ SetObs(p, [obs[p] EXCEPT !.creationFailed = @ \/ failed,
                                    !.heNew = IF failed THEN @ ELSE @ + 1,
                                    !.inHE = failed])
        /\ lastCreationFailed' = failed
        /\ staleSid' = (IF ~failed /\ obs[p].heObs = "released"
                        THEN obs[p].heEntrySid ELSE staleSid)
  /\ UNCHANGED <<cfgVars, auxVars,
                 mgrVars, svcVars, setupDone, disturbed, cleanedSid>>

\* handleError resumes after the createNewSession of its catch clause.
handleErrorCatchDone(p) ==
  /\ proc[p].pc = "he_catchDone"
  /\ LET failed == proc[p].exc # "none"
     IN /\ SetProc(p, IF failed THEN Throw(proc[p], proc[p].exc)
                      ELSE ReturnBool(proc[p], TRUE))
        /\ SetObs(p, [obs[p] EXCEPT !.creationFailed = @ \/ failed,
                                    !.heNew = IF failed THEN @ ELSE @ + 1,
                                    !.inHE = FALSE])
        /\ lastCreationFailed' = failed
        /\ staleSid' = (IF ~failed /\ obs[p].heObs = "released"
                        THEN obs[p].heEntrySid ELSE staleSid)
  /\ UNCHANGED <<cfgVars, auxVars,
                 mgrVars, svcVars, setupDone, disturbed, cleanedSid>>

-----------------------------------------------------------------------------
(* The tool handlers: the validation each performs, the puppeteer          *)
(* operations it awaits in order, and those it wraps in try/catch.         *)

\* Map.prototype.has / get / set on the store (insertion order is kept, and a
\* set on an existing key keeps the key's place)
mapHas(m, k) == \E i \in 1..Len(m) : m[i].name = k

mapGet(m, k) == m[CHOOSE i \in 1..Len(m) : m[i].name = k].bytes

\* variant of Map.prototype.set that drops every other entry
mapSet_Clearing(m, k, v) == <<[name |-> k, bytes |-> v]>>

mapSet(m, k, v) ==
  IF mapHas(m, k)
  THEN [i \in 1..Len(m) |-> IF m[i].name = k THEN [m[i] EXCEPT !.bytes = v]
                                              ELSE m[i]]
  ELSE Append(m, [name |-> k, bytes |-> v])

\* the characters of the resource names callers pass
NameChars(str) ==
  CASE str = "a" -> <<"a">>
    [] str = "a://b" -> <<"a", ":", "/", "/", "b">>

\* index.ts:876  `unmarked_screenshot_${Date.now()}` (prefix abbreviated; the
\* clock reading t differs from one invocation to the next)
defaultResourceName(t) == <<"u", "_">> \o DecimalChars(t)

\* index.ts:874-877
resourceNameOf(args, t) ==
  IF Truthy(args.resourceName) THEN NameChars(args.resourceName.str)
  ELSE defaultResourceName(t)

handleNavigate(args) ==
  [valid |-> Truthy(args.url), ops |-> <<"goto">>, caught |-> {}]

handleSearch(args) ==
  [valid |-> Truthy(args.query), ops |-> <<"goto">>, caught |-> {}]

handleClick(args) ==
  [valid |-> Truthy(args.label),
   ops |-> <<"waitForSelector", "$eval", "click">>,
   caught |-> {"waitForSelector", "$eval", "click"}]

handleType(args) ==
  [valid |-> Truthy(args.label) /\ Truthy(args.text),
   ops |-> <<"waitForSelector", "$eval">>,
   caught |-> {"waitForSelector"}]

handleScrollDown(args) ==
  [valid |-> TRUE,
   ops |-> IF args.pixels # Undefined THEN <<"evaluate">> ELSE <<"keyboard.press">>,
   caught |-> {}]

handleScrollUp(args) ==
  [valid |-> TRUE,
   ops |-> IF args.pixels # Undefined THEN <<"evaluate">> ELSE <<"keyboard.press">>,
   caught |-> {}]

handleGoBack(args) ==
  [valid |-> TRUE, ops |-> <<"goBack">>, caught |-> {}]

\* variant of handleWait without the upper bound of its range check
handleWaitAccepts_NoUpperBound(seconds) ==
  seconds.type = "number" /\ seconds.num >= 0

\* variant of handleWait without its range check
handleWaitAccepts_Always(seconds) == TRUE

\* index.ts:849  typeof seconds !== "number" || seconds < 0 || seconds > 10
handleWaitAccepts(seconds) ==
  seconds.type = "number" /\ seconds.num >= 0 /\ seconds.num <= 10

handleWait(args) ==
  [valid |-> handleWaitAccepts(args.seconds), ops |-> <<"sleep">>, caught |-> {}]

handleSaveUnmarkedScreenshot(args) ==
  [valid |-> TRUE, ops |-> <<"evaluate", "screenshot">>, caught |-> {}]

\* the switch of handleToolCall
HandlerOf(name, args) ==
  CASE name = "navigate" -> handleNavigate(args)
    [] name = "search" -> handleSearch(args)
    [] name = "click" -> handleClick(args)
    [] name = "type" -> handleType(args)
    [] name = "scroll_down" -> handleScrollDown(args)
    [] name = "scroll_up" -> handleScrollUp(args)
    [] name = "go_back" -> handleGoBack(args)
    [] name = "wait" -> handleWait(args)
    [] OTHER -> handleSaveUnmarkedScreenshot(args)

\* Outcomes of one awaited operation of a handler on its page.
HandlerOpOutcomes(op, pg) ==
  IF op = "sleep" THEN {"ok"}
  ELSE IF op = "goBack" /\ Alive(pg) THEN {"ok", "action", "noResponse"}
  ELSE PageOpOutcomes(pg)

\* the text of the error result a handler returns when it rejects its
\* arguments: "... parameter is required" (navigate, search, click, type), or
\* the range message of wait
rejectionMessage(name) == IF name = "wait" THEN "range" ELSE "required"

\* every return statement of every handler: content: [{ type: "text", ... }]
handlerContent == <<"text">>

\* One awaited operation of the running handler completes.
handlerStep(p) ==
  /\ proc[p].pc = "handler"
  /\ LET r == proc[p]
         op == Head(r.ops)
     IN \E out \in HandlerOpOutcomes(op, r.locPage) :
          /\ SetProc(p,
               IF out = "ok"
               THEN IF Len(r.ops) = 1
                    THEN [r EXCEPT !.pc = "tc_afterHandler", !.hres = "ok",
                                   !.ops = <<>>, !.isError = FALSE,
                                   !.content = handlerContent]
                    ELSE [r EXCEPT !.ops = Tail(r.ops)]
               ELSE IF out = "noResponse" \/ op \in r.caught
               THEN [r EXCEPT !.pc = "tc_afterHandler", !.hres = "error",
                              !.ops = <<>>, !.isError = TRUE,
                              !.content = handlerContent]
               ELSE [r EXCEPT !.pc = "tc_afterHandler", !.exc = out,
                              !.ops = <<>>])
          /\ SetObs(p, [obs[p] EXCEPT
                 !.handlerConnErr = @ \/ out = "conn"])
          \* index.ts:887-888  screenshots.set(resourceName, Buffer.from(buffer))
          /\ screenshots' = IF op = "screenshot" /\ out = "ok"
                            THEN mapSet(screenshots,
                                        resourceNameOf(r.args, nOps),
                                        Bytes(nOps, FALSE))
                            ELSE screenshots
  /\ UNCHANGED <<cfgVars, resp, fn, mgrVars, svcVars, setupDone, histVars>>

-----------------------------------------------------------------------------
(* handleToolCall: the dispatcher envelope *)

\* the catch clause of handleToolCall: handleError(error) is called
Catch(r, e) ==
  Invoke([r EXCEPT !.err = e, !.isError = FALSE, !.content = <<>>],
         "he", "tc_afterHE")

Step(r, s) == [r EXCEPT !.steps = Append(@, s)]

\* variant of handleToolCall without the early return on an error result
returnsEarly_Never(hres) == FALSE

\* index.ts:959  if (result.isError) return result
returnsEarly(hres) == hres = "error"

\* index.ts:964  if (globalWaitSeconds > 0)
globalWaitApplies == globalWaitSeconds > 0

\* handleToolCall resumes after ensureSession and dispatches on the name.
toolCallDispatchFrom(p, calls) ==
  /\ proc[p].pc = "tc_afterES"
  /\ \E call \in calls :
       LET r == [proc[p] EXCEPT !.name = call.name, !.args = call.args]
           plan == HandlerOf(r.name, r.args)
           r1 == [r EXCEPT !.locPage = r.retPage, !.retPage = NULL]
       IN /\ SetProc(p,
               IF r.exc # "none" THEN Catch(proc[p], r.exc)
               ELSE IF r.name \notin TOOLS
               THEN [r1 EXCEPT !.pc = "tc_afterHandler", !.hres = "error",
                               !.isError = TRUE, !.content = <<"text">>]
               ELSE IF ~plan.valid
               THEN [Step(r1, "act") EXCEPT !.pc = "tc_afterHandler",
                                            !.hres = "error", !.isError = TRUE,
                                            !.content = handlerContent,
                                            !.detail = rejectionMessage(r.name)]
               ELSE [Step(r1, "act") EXCEPT !.pc = "handler", !.ops = plan.ops,
                                            !.caught = plan.caught])
          /\ SetObs(p, [obs[p] EXCEPT
                 !.handlerRan = IF r.exc = "none" /\ r.name \in TOOLS
                                THEN @ + 1 ELSE @,
                 !.acquireFailed = @ \/ r.exc # "none"])
  /\ UNCHANGED <<cfgVars, auxVars, mgrVars, svcVars, setupDone, histVars>>

toolCallDispatch(p) == toolCallDispatchFrom(p, ToolCalls)

\* handleToolCall resumes with the handler's result (or its exception).
toolCallAfterHandler(p) ==
  /\ proc[p].pc = "tc_afterHandler"
  /\ LET r == proc[p]
     IN SetProc(p,
          IF r.exc # "none" THEN Catch(r, r.exc)
          ELSE IF returnsEarly(r.hres)
          THEN [Return(r) EXCEPT !.result = "handler_error"]
          ELSE IF globalWaitApplies
          THEN [Step(r, "wait") EXCEPT !.pc = "tc_sleep"]
          ELSE Invoke(Step(r, "annotate"), "imp", "tc_afterInject"))
  /\ UNCHANGED <<cfgVars, auxVars, mgrVars, svcVars, setupDone, obs, histVars>>

\* the global sleep is over; injectMarkPageScript is called.
toolCallAfterSleep(p) ==
  /\ proc[p].pc = "tc_sleep"
  /\ SetProc(p, Invoke(Step(proc[p], "annotate"), "imp", "tc_afterInject"))
  /\ UNCHANGED <<cfgVars, auxVars, mgrVars, svcVars, setupDone, obs, histVars>>

\* handleToolCall resumes after injectMarkPageScript and issues page.screenshot().
toolCallAfterInject(p) ==
  /\ proc[p].pc = "tc_afterInject"
  /\ LET r == proc[p]
     IN SetProc(p,
          IF r.exc # "none" THEN Catch(r, r.exc)
          ELSE IF r.locPage = NULL THEN Catch(r, "TypeError")
          ELSE [Step(r, "screenshot") EXCEPT !.pc = "tc_screenshot",
                                             !.arg = r.locPage])
  /\ UNCHANGED <<cfgVars, auxVars, mgrVars, svcVars, setupDone, obs, histVars>>

\* variant of the attachment of the screenshot that attaches the image twice
appendScreenshot_Twice(content) == Append(Append(content, "image"), "image")

\* variant of the attachment of the screenshot that puts the image first
appendScreenshot_Prepended(content) == <<"image">> \o content

\* index.ts:973-977  result.content.push({ type: "image", ... })
appendScreenshot(content) == Append(content, "image")

\* page.screenshot() completes; the image is appended and the result returned.
toolCallScreenshot(p) ==
  /\ proc[p].pc = "tc_screenshot"
  /\ LET r == proc[p]
     IN \E out \in PageOpOutcomes(r.arg) :
          SetProc(p, IF out = "ok"
                     THEN [Return(r) EXCEPT !.result = "success",
                                            !.content = appendScreenshot(r.content),
                                            !.image = Bytes(nOps, TRUE)]
                     ELSE Catch(r, out))
  /\ UNCHANGED <<cfgVars, auxVars, mgrVars, svcVars, setupDone, obs, histVars>>

\* variant of the catch clause that runs the invocation again after a recreation
recreatedOutcome_Reruns(r) ==
  [r EXCEPT !.pc = "es", !.stack = <<"tc_afterES">> \o r.stack,
            !.exc = "none", !.err = "none"]

\* index.ts:989-1001  if (wasSessionError) return { isError: true, ...retry text }
recreatedOutcome(r) ==
  [Return(r) EXCEPT !.result = "retry", !.isError = TRUE,
                    !.content = <<"text">>, !.detail = "none"]

\* index.ts:1004-1015  the error result with the original message and stack
surfacedOutcome(r) ==
  [Return(r) EXCEPT !.result = "surfaced", !.isError = TRUE,
                    !.content = <<"text">>, !.detail = r.err]

\* the catch clause resumes after handleError.
toolCallAfterHandleError(p) ==
  /\ proc[p].pc = "tc_afterHE"
  /\ LET r == proc[p]
     IN SetProc(p,
          IF r.exc # "none" THEN [Throw(r, r.exc) EXCEPT !.result = "raised"]
          ELSE IF r.retBool THEN recreatedOutcome(r)
          ELSE surfacedOutcome(r))
  /\ UNCHANGED <<cfgVars, auxVars, mgrVars, svcVars, setupDone, obs, histVars>>

-----------------------------------------------------------------------------
(* Environment: a live session ends on the service's side (idle timeout,    *)
(* release by a third party, crash); its transport is dead from then on.    *)
(* The program can observe the end of a session only in the outcome of a    *)
(* request that concerns it, so the model lets a session end between        *)
(* operations and right before a step that awaits such a request.           *)

Observes(p, s) ==
  LET r == proc[p]
  IN \/ /\ r.pc \in {"cns_connect", "cns_pages", "imp_eond", "imp_eval",
                      "sp_viewport", "tc_screenshot", "he_retrieve"}
        /\ r.arg = s
     \/ /\ r.pc = "handler"
        /\ r.locPage = s
        /\ Head(r.ops) # "sleep"
     \/ /\ r.pc = "idle"
        /\ s \in {sessionId, browser, page}

SessionEnds(s) ==
  /\ status[s] = "live"
  /\ \E p \in Procs : Observes(p, s)
  /\ \A p \in Procs : proc[p].pc = "idle" \/ Observes(p, s)
  /\ status' = [status EXCEPT ![s] = "released"]
  /\ UNCHANGED <<cfgVars, auxVars,
                 mgrVars, transport, released, nextId, createReqs,
                 nOps, setupDone, proc, obs, histVars>>

-----------------------------------------------------------------------------
\* Invocations are handled one at a time: only one of them is ever active.
Serial == {"a"}

\* The server: tool invocations, handled one at a time.
Next ==
  \/ \E p \in Serial : CallTool(p)
  \/ \E p \in Serial : Finish(p)
  \/ \E p \in Serial : ensureSession(p)
  \/ \E p \in Serial : initialize(p)
  \/ \E p \in Serial : initializeAfterCreate(p)
  \/ \E p \in Serial : createNewSession(p)
  \/ \E p \in Serial : createNewSessionAfterCleanup(p)
  \/ \E p \in Serial : createSteelSession(p)
  \/ \E p \in Serial : connectBrowser(p)
  \/ \E p \in Serial : firstPage(p)
  \/ \E p \in Serial : setupPage(p)
  \/ \E p \in Serial : setupPageViewport(p)
  \/ \E p \in Serial : setupPageListener(p)
  \/ \E p \in Serial : injectMarkPageScript(p)
  \/ \E p \in Serial : injectOnNewDocument(p)
  \/ \E p \in Serial : injectEvaluate(p)
  \/ \E p \in Serial : cleanup(p)
  \/ \E p \in Serial : cleanupRelease(p)
  \/ \E p \in Serial : cleanupClose(p)
  \/ \E p \in Serial : handleError(p)
  \/ \E p \in Serial : handleErrorRetrieve(p)
  \/ \E p \in Serial : handleErrorTryDone(p)
  \/ \E p \in Serial : handleErrorCatchDone(p)
  \/ \E p \in Serial : toolCallDispatch(p)
  \/ \E p \in Serial : handlerStep(p)
  \/ \E p \in Serial : toolCallAfterHandler(p)
  \/ \E p \in Serial : toolCallAfterSleep(p)
  \/ \E p \in Serial : toolCallAfterInject(p)
  \/ \E p \in Serial : toolCallScreenshot(p)
  \/ \E p \in Serial : toolCallAfterHandleError(p)
  \/ \E s \in Sids : SessionEnds(s)

Spec == Init /\ [][Next]_vars

\* The session manager on its own: any sequence of calls of its public methods.
ManagerNext ==
  \/ \E p \in Serial : CallMethod(p)
  \/ \E p \in Serial : Finish(p)
  \/ \E p \in Serial : ensureSession(p)
  \/ \E p \in Serial : initialize(p)
  \/ \E p \in Serial : initializeAfterCreate(p)
  \/ \E p \in Serial : createNewSession(p)
  \/ \E p \in Serial : createNewSessionAfterCleanup(p)
  \/ \E p \in Serial : createSteelSession(p)
  \/ \E p \in Serial : connectBrowser(p)
  \/ \E p \in Serial : firstPage(p)
  \/ \E p \in Serial : setupPage(p)
  \/ \E p \in Serial : setupPageViewport(p)
  \/ \E p \in Serial : setupPageListener(p)
  \/ \E p \in Serial : injectMarkPageScript(p)
  \/ \E p \in Serial : injectOnNewDocument(p)
  \/ \E p \in Serial : injectEvaluate(p)
  \/ \E p \in Serial : cleanup(p)
  \/ \E p \in Serial : cleanupRelease(p)
  \/ \E p \in Serial : cleanupClose(p)
  \/ \E p \in Serial : handleError(p)
  \/ \E p \in Serial : handleErrorRetrieve(p)
  \/ \E p \in Serial : handleErrorTryDone(p)
  \/ \E p \in Serial : handleErrorCatchDone(p)
  \/ \E s \in Sids : SessionEnds(s)

ManagerSpec == Init /\ [][ManagerNext]_vars

-----------------------------------------------------------------------------
(* The resource store and the ListResources / ReadResource handlers.        *)
(* Requests are handled one at a time: a resource request is taken when no  *)
(* tool invocation is in progress, and its response is delivered before the *)
(* next request is taken.                                                   *)

\* "screenshot://"
ScreenshotScheme ==
  <<"s", "c", "r", "e", "e", "n", "s", "h", "o", "t", ":", "/", "/">>

SchemeSeparator == <<":", "/", "/">>

\* index.ts:1041  uri: `screenshot://${name}`
screenshotURI(name) == ScreenshotScheme \o name

\* index.ts:1038-1046
ListResources ==
  /\ resp = NoResp
  /\ \A p \in Procs : proc[p].pc = "idle"
  /\ resp' = [NoResp EXCEPT
         !.kind = "list",
         !.uris = [i \in 1..Len(screenshots) |-> screenshotURI(screenshots[i].name)]]
  /\ UNCHANGED <<cfgVars, mgrVars, svcVars, setupDone, proc, obs, histVars,
                 screenshots, fn>>

\* index.ts:1048-1066
ReadResource(uri) ==
  /\ resp = NoResp
  /\ \A p \in Procs : proc[p].pc = "idle"
  /\ LET name == splitSecond(uri, SchemeSeparator)
     IN resp' = IF startsWith(uri, ScreenshotScheme) /\ mapHas(screenshots, name)
                THEN [NoResp EXCEPT !.kind = "read", !.uri = uri,
                                    !.blob = mapGet(screenshots, name)]
                ELSE [NoResp EXCEPT !.kind = "read", !.uri = uri,
                                    !.error = TRUE]
  /\ UNCHANGED <<cfgVars, mgrVars, svcVars, setupDone, proc, obs, histVars,
                 screenshots, fn>>

\* the response is sent
Deliver ==
  /\ resp # NoResp
  /\ resp' = NoResp
  /\ UNCHANGED <<cfgVars, mgrVars, svcVars, setupDone, proc, obs, histVars,
                 screenshots, fn>>

\* URIs a client may ask for: those of the names callers use and of a default
\* name, one of a name that is never stored, one of another scheme
ReadURIs ==
  {screenshotURI(NameChars(str)) : str \in {"a", "a://b"}}
    \cup {screenshotURI(defaultResourceName(1)),
          screenshotURI(<<"z">>),
          <<"f", ":", "/", "/", "a">>}

\* the tool calls of the runs that exercise the store
ResourceCalls ==
  { Call("save_unmarked_screenshot", NoArgs),
    Call("save_unmarked_screenshot", [NoArgs EXCEPT !.resourceName = JsStr("a")]),
    Call("save_unmarked_screenshot",
         [NoArgs EXCEPT !.resourceName = JsStr("a://b")]),
    Call("navigate", [NoArgs EXCEPT !.url = JsStr("example.com")]) }

CallResourceTool(p) ==
  /\ resp = NoResp
  /\ nOps < MaxOps
  /\ Begin(p, "tool")

ResourceNext ==
  \/ \E p \in Serial : CallResourceTool(p)
  \/ \E p \in Serial : Finish(p)
  \/ \E p \in Serial : ensureSession(p)
  \/ \E p \in Serial : initialize(p)
  \/ \E p \in Serial : initializeAfterCreate(p)
  \/ \E p \in Serial : createNewSession(p)
  \/ \E p \in Serial : createNewSessionAfterCleanup(p)
  \/ \E p \in Serial : createSteelSession(p)
  \/ \E p \in Serial : connectBrowser(p)
  \/ \E p \in Serial : firstPage(p)
  \/ \E p \in Serial : setupPage(p)
  \/ \E p \in Serial : setupPageViewport(p)
  \/ \E p \in Serial : setupPageListener(p)
  \/ \E p \in Serial : injectMarkPageScript(p)
  \/ \E p \in Serial : injectOnNewDocument(p)
  \/ \E p \in Serial : injectEvaluate(p)
  \/ \E p \in Serial : cleanup(p)
  \/ \E p \in Serial : cleanupRelease(p)
  \/ \E p \in Serial : cleanupClose(p)
  \/ \E p \in Serial : handleError(p)
  \/ \E p \in Serial : handleErrorRetrieve(p)
  \/ \E p \in Serial : handleErrorTryDone(p)
  \/ \E p \in Serial : handleErrorCatchDone(p)
  \/ \E p \in Serial : toolCallDispatchFrom(p, ResourceCalls)
  \/ \E p \in Serial : handlerStep(p)
  \/ \E p \in Serial : toolCallAfterHandler(p)
  \/ \E p \in Serial : toolCallAfterSleep(p)
  \/ \E p \in Serial : toolCallAfterInject(p)
  \/ \E p \in Serial : toolCallScreenshot(p)
  \/ \E p \in Serial : toolCallAfterHandleError(p)
  \/ \E s \in Sids : SessionEnds(s)
  \/ ListResources
  \/ \E uri \in ReadURIs : ReadResource(uri)
  \/ Deliver

\* the store is exercised in remote mode, with a pause after every action
ResourceInit == Init /\ ~steelLocal /\ globalWaitSeconds = 1

ResourceSpec == ResourceInit /\ [][ResourceNext]_vars

-----------------------------------------------------------------------------
(* Functions of the program applied to inputs drawn from bounded sets: the  *)
(* argument check and delay of handleWait, the derivation of the transport  *)
(* endpoint in createNewSession, and the assignment handleType evaluates in *)
(* the page.                                                                *)

\* index.ts:861  await sleep(seconds * 1000)
handleWaitSleepMs(seconds) == seconds.num * 1000

\* values a caller may pass as `seconds`
WaitInputs ==
  {Undefined, JsStr("5"), JsBool(TRUE), JsNum(-1), JsNum(0), JsNum(1),
   JsNum(5), JsNum(10), JsNum(11), JsNum(15)}

\* handleWait(page, {seconds}): its result and the delays it performed
ApplyHandleWait ==
  /\ \E seconds \in WaitInputs :
       LET plan == handleWait([NoArgs EXCEPT !.seconds = seconds])
       IN fn' = [f |-> "handleWait",
                 in |-> seconds,
                 out |-> [isError |-> ~plan.valid,
                          sleeps |-> IF plan.valid
                                     THEN [i \in 1..Len(plan.ops) |->
                                             handleWaitSleepMs(seconds)]
                                     ELSE <<>>]]
  /\ UNCHANGED <<cfgVars, mgrVars, svcVars, setupDone, proc, obs, histVars,
                 screenshots, resp>>

\* "/?sessionId="
LocalQuery ==
  <<"/", "?", "s", "e", "s", "s", "i", "o", "n", "I", "d", "=">>

\* "wss://connect.steel.dev?sessionId="
RemoteEndpointHead ==
  <<"w", "s", "s", ":", "/", "/", "c", "o", "n", "n", "e", "c", "t", ".",
    "s", "t", "e", "e", "l", ".", "d", "e", "v", "?", "s", "e", "s", "s",
    "i", "o", "n", "I", "d", "=">>

\* "&apiKey="
ApiKeyParam ==
  <<"&", "a", "p", "i", "K", "e", "y", "=">>

InvalidBaseURL == <<"Invalid Steel base URL">>

\* index.ts:312-329  the endpoint in local mode, or the error thrown
localEndpoint(url, sid) ==
  IF startsWith(toLowerCase(url), HttpPrefix)
  THEN replaceFirst(url, HttpPrefix, WsPrefix) \o LocalQuery \o DecimalChars(sid)
  ELSE IF startsWith(toLowerCase(url), HttpsPrefix)
  THEN replaceFirst(url, HttpsPrefix, WssPrefix) \o LocalQuery \o DecimalChars(sid)
  ELSE InvalidBaseURL

\* index.ts:330-336  the endpoint in remote mode (key = <<>>: no steelKey)
remoteEndpoint(sid, key) ==
  RemoteEndpointHead \o DecimalChars(sid)
    \o (IF key # <<>> THEN ApiKeyParam \o key ELSE <<>>)

browserWSEndpoint(local, url, sid, key) ==
  IF local THEN localEndpoint(url, sid) ELSE remoteEndpoint(sid, key)

\* index.ts:201  the constructor rejects the remote mode without a key
constructorAccepts(local, key) == local \/ key # <<>>

\* base URLs STEEL_BASE_URL may hold
EndpointURLs ==
  BaseURLs \cup
  { DefaultCloudURL,
    <<"H", "T", "T", "P", ":", "/", "/", "x">>,
    <<"H", "t", "t", "p", "s", ":", "/", "/", "x">>,
    <<"x">> }

\* values of STEEL_API_KEY (<<>>: unset or empty)
ApiKeys == {<<>>, <<"k">>, <<"k", "2">>}

\* the endpoint createNewSession connects to, for a constructed manager
ApplyBrowserWSEndpoint ==
  /\ \E local \in BOOLEAN, url \in EndpointURLs, sid \in Sids, key \in ApiKeys :
       /\ constructorAccepts(local, key)
       /\ fn' = [f |-> "browserWSEndpoint",
                 in |-> [local |-> local, url |-> url, sid |-> sid, key |-> key],
                 out |-> browserWSEndpoint(local, url, sid, key)]
  /\ UNCHANGED <<cfgVars, mgrVars, svcVars, setupDone, proc, obs, histVars,
                 screenshots, resp>>

\* variant of the assignment of handleType that puts the text first
typeValue_Prepends(v, text, replaceText) ==
  IF Truthy(IF replaceText = Undefined THEN JsBool(FALSE) ELSE replaceText)
  THEN text
  ELSE text \o v

\* index.ts:710, 738-762  replaceText = false by default; input.value = value,
\* or input.value = (input.value ?? "") + value
typeValue(v, text, replaceText) ==
  IF Truthy(IF replaceText = Undefined THEN JsBool(FALSE) ELSE replaceText)
  THEN text
  ELSE v \o text

\* the strings of at most n characters over the alphabet
StringsUpTo(alphabet, n) == UNION {[1..k -> alphabet] : k \in 0..n}

MaxValueLen == 2

FieldValues == StringsUpTo({"a", "b"}, MaxValueLen) \cup {<<"a", "b", "c">>}

TypedTexts ==
  (StringsUpTo({"a", "d"}, MaxValueLen) \ {<<>>}) \cup {<<"d", "e", "f">>}

\* handleType's page.$eval on a field whose value is v
ApplyTypeValue ==
  /\ \E v \in FieldValues, text \in TypedTexts,
        replaceText \in {Undefined, JsBool(FALSE), JsBool(TRUE)} :
       fn' = [f |-> "typeValue",
              in |-> [v |-> v, text |-> text, replaceText |-> replaceText],
              out |-> typeValue(v, text, replaceText)]
  /\ UNCHANGED <<cfgVars, mgrVars, svcVars, setupDone, proc, obs, histVars,
                 screenshots, resp>>

\* index.ts:24  const steelLocal = process.env.STEEL_LOCAL === "true"
steelLocalOf(envLocal) == envLocal = JsStr("true")

\* index.ts:194  typeof process.env.STEEL_LOCAL === "undefined"
constructorFindsLocalDefined(envLocal) == envLocal # Undefined

\* index.ts:24, 189-205, 448-452  the module-level construction of the
\* manager: the mode the server starts in, or the error thrown at startup
startup(envLocal, key) ==
  IF ~constructorFindsLocalDefined(envLocal)
  THEN [started |-> FALSE, local |-> FALSE, error |-> "STEEL_LOCAL undefined"]
  ELSE IF ~constructorAccepts(steelLocalOf(envLocal), key)
  THEN [started |-> FALSE, local |-> FALSE, error |-> "STEEL_API_KEY missing"]
  ELSE [started |-> TRUE, local |-> steelLocalOf(envLocal), error |-> "none"]

\* values of the environment variable STEEL_LOCAL (Undefined: unset)
LocalSettings ==
  {Undefined, JsStr("true"), JsStr("false"), JsStr("TRUE"), JsStr("")}

\* the server process starts with a given environment
ApplyStartup ==
  /\ \E envLocal \in LocalSettings, key \in ApiKeys :
       fn' = [f |-> "startup",
              in |-> [envLocal |-> envLocal, key |-> key],
              out |-> startup(envLocal, key)]
  /\ UNCHANGED <<cfgVars, mgrVars, svcVars, setupDone, proc, obs, histVars,
                 screenshots, resp>>

FunctionNext ==
  \/ ApplyHandleWait
  \/ ApplyBrowserWSEndpoint
  \/ ApplyTypeValue
  \/ ApplyStartup

FunctionSpec == Init /\ [][FunctionNext]_vars

-----------------------------------------------------------------------------
(* Interleaved invocations.  Nothing serialises the calls of the manager:  *)
(* a second request is handled as soon as the first one awaits.  An async   *)
(* function runs synchronously up to its first await, so another invocation *)
(* can only run while this one is pending on an awaited request or has      *)
(* just been resumed; the positions below are reached by a plain call and   *)
(* left again within the same synchronous run.                              *)

SyncPcs == {"es", "init", "cns", "sp", "imp", "he", "cl"}

Scheduled(p) == \A q \in Procs \ {p} : proc[q].pc \notin SyncPcs

\* the methods called in the interleaved runs
RaceMethods == {"ensureSession", "cleanup"}

CallRace(p) ==
  /\ nOps < MaxOps
  /\ \E kind \in RaceMethods : Begin(p, kind)

RaceNext ==
  \/ \E p \in Procs : Scheduled(p) /\ CallRace(p)
  \/ \E p \in Procs : Scheduled(p) /\ Finish(p)
  \/ \E p \in Procs : Scheduled(p) /\ ensureSession(p)
  \/ \E p \in Procs : Scheduled(p) /\ initialize(p)
  \/ \E p \in Procs : Scheduled(p) /\ initializeAfterCreate(p)
  \/ \E p \in Procs : Scheduled(p) /\ createNewSession(p)
  \/ \E p \in Procs : Scheduled(p) /\ createNewSessionAfterCleanup(p)
  \/ \E p \in Procs : Scheduled(p) /\ createSteelSession(p)
  \/ \E p \in Procs : Scheduled(p) /\ connectBrowser(p)
  \/ \E p \in Procs : Scheduled(p) /\ firstPage(p)
  \/ \E p \in Procs : Scheduled(p) /\ setupPage(p)
  \/ \E p \in Procs : Scheduled(p) /\ setupPageViewport(p)
  \/ \E p \in Procs : Scheduled(p) /\ setupPageListener(p)
  \/ \E p \in Procs : Scheduled(p) /\ injectMarkPageScript(p)
  \/ \E p \in Procs : Scheduled(p) /\ injectOnNewDocument(p)
  \/ \E p \in Procs : Scheduled(p) /\ injectEvaluate(p)
  \/ \E p \in Procs : Scheduled(p) /\ cleanup(p)
  \/ \E p \in Procs : Scheduled(p) /\ cleanupRelease(p)
  \/ \E p \in Procs : Scheduled(p) /\ cleanupClose(p)
  \/ \E s \in Sids : SessionEnds(s)

\* the pause after an action (globalWaitSeconds) is not read by the manager
RaceInit == Init /\ globalWaitSeconds = 0

RaceSpec == RaceInit /\ [][RaceNext]_vars

-----------------------------------------------------------------------------
(* Graceful shutdown: the SIGINT / SIGTERM handlers.  A signal handler is a *)
(* callback of the event loop: it starts at any turn of the loop, whatever  *)
(* a tool invocation is awaiting, awaits sessionManager.cleanup() and then  *)
(* calls process.exit(0), after which nothing runs.                         *)

\* the invocation in progress and the signal handler
Invokers == {"a"}

SignalHandlers == {"b"}

\* process.exit has been called
Exited == \E p \in Procs : proc[p].pc = "exited"

\* the handler's cleanup() has resolved: its continuation, process.exit(0),
\* runs before any other callback of the loop
ExitPending == \E p \in SignalHandlers : proc[p].pc = "done"

Running(p) ==
  /\ Scheduled(p)
  /\ ~Exited
  /\ p \in Invokers => ~ExitPending

\* the calls invoked in the shutdown runs
ShutdownCalls ==
  { Call("navigate", [NoArgs EXCEPT !.url = JsStr("example.com")]) }

CallShutdownTool(p) ==
  /\ nOps < MaxCalls
  /\ Begin(p, "tool")

\* index.ts:1106-1108, 1112-1116  SIGINT or SIGTERM is delivered: the handler
\* logs and calls sessionManager.cleanup()
Signal(p) == Begin(p, "cleanup")

\* the steps of the cleanup() awaited by the signal handler
SignalCleanup(p) == cleanup(p)

SignalCleanupRelease(p) == cleanupRelease(p)

SignalCleanupClose(p) == cleanupClose(p)

\* index.ts:1109, 1117  process.exit(0)
ProcessExit(p) ==
  /\ proc[p].pc = "done"
  /\ SetProc(p, [proc[p] EXCEPT !.pc = "exited"])
  /\ UNCHANGED <<cfgVars, auxVars, mgrVars, svcVars, setupDone, obs, histVars>>

ShutdownNext ==
  \/ \E p \in Invokers : Running(p) /\ CallShutdownTool(p)
  \/ \E p \in Invokers : Running(p) /\ Finish(p)
  \/ \E p \in Invokers : Running(p) /\ ensureSession(p)
  \/ \E p \in Invokers : Running(p) /\ initialize(p)
  \/ \E p \in Invokers : Running(p) /\ initializeAfterCreate(p)
  \/ \E p \in Invokers : Running(p) /\ createNewSession(p)
  \/ \E p \in Invokers : Running(p) /\ createNewSessionAfterCleanup(p)
  \/ \E p \in Invokers : Running(p) /\ createSteelSession(p)
  \/ \E p \in Invokers : Running(p) /\ connectBrowser(p)
  \/ \E p \in Invokers : Running(p) /\ firstPage(p)
  \/ \E p \in Invokers : Running(p) /\ setupPage(p)
  \/ \E p \in Invokers : Running(p) /\ setupPageViewport(p)
  \/ \E p \in Invokers : Running(p) /\ setupPageListener(p)
  \/ \E p \in Invokers : Running(p) /\ injectMarkPageScript(p)
  \/ \E p \in Invokers : Running(p) /\ injectOnNewDocument(p)
  \/ \E p \in Invokers : Running(p) /\ injectEvaluate(p)
  \/ \E p \in Invokers : Running(p) /\ cleanup(p)
  \/ \E p \in Invokers : Running(p) /\ cleanupRelease(p)
  \/ \E p \in Invokers : Running(p) /\ cleanupClose(p)
  \/ \E p \in Invokers : Running(p) /\ handleError(p)
  \/ \E p \in Invokers : Running(p) /\ handleErrorRetrieve(p)
  \/ \E p \in Invokers : Running(p) /\ handleErrorTryDone(p)
  \/ \E p \in Invokers : Running(p) /\ handleErrorCatchDone(p)
  \/ \E p \in Invokers : Running(p) /\ toolCallDispatchFrom(p, ShutdownCalls)
  \/ \E p \in Invokers : Running(p) /\ handlerStep(p)
  \/ \E p \in Invokers : Running(p) /\ toolCallAfterHandler(p)
  \/ \E p \in Invokers : Running(p) /\ toolCallAfterSleep(p)
  \/ \E p \in Invokers : Running(p) /\ toolCallAfterInject(p)
  \/ \E p \in Invokers : Running(p) /\ toolCallScreenshot(p)
  \/ \E p \in Invokers : Running(p) /\ toolCallAfterHandleError(p)
  \/ \E p \in SignalHandlers : Running(p) /\ Signal(p)
  \/ \E p \in SignalHandlers : Running(p) /\ SignalCleanup(p)
  \/ \E p \in SignalHandlers : Running(p) /\ SignalCleanupRelease(p)
  \/ \E p \in SignalHandlers : Running(p) /\ SignalCleanupClose(p)
  \/ \E p \in SignalHandlers : ProcessExit(p)
  \/ \E s \in Sids : ~Exited /\ SessionEnds(s)

\* shutdown is exercised in remote mode, with a pause after every action
ShutdownInit == Init /\ ~steelLocal /\ globalWaitSeconds = 1

ShutdownSpec == ShutdownInit /\ [][ShutdownNext]_vars

-----------------------------------------------------------------------------
(* Properties *)

Done(p, kind) == proc[p].pc = "done" /\ proc[p].kind = kind

Returned(p, kind) == Done(p, kind) /\ proc[p].exc = "none"

\* Validity of a call's arguments by the tool's declared input schema
\* (required fields present with the declared type, numbers within range).
ArgsValid(name, args) ==
  CASE name = "navigate" -> args.url.type = "string"
    [] name = "search" -> args.query.type = "string"
    [] name = "click" -> args.label.type = "number"
    [] name = "type" -> args.label.type = "number" /\ args.text.type = "string"
    [] name = "wait" -> /\ args.seconds.type = "number"
                        /\ args.seconds.num >= 0
                        /\ args.seconds.num <= 10
    [] OTHER -> TRUE

IsPrefix(s, t) == Len(s) <= Len(t) /\ SubSeq(t, 1, Len(s)) = s

\* the order of the steps of one tool invocation
CanonicalSteps ==
  <<"acquire", "act">>
    \o (IF globalWaitSeconds > 0 THEN <<"wait">> ELSE <<>>)
    \o <<"annotate", "screenshot">>

\* C1: as long as no creation failed, handleError did not recreate and cleanup
\* did not run, every ensureSession() call that has returned found exactly one
\* create request issued in total and returned the page of the one session the
\* service created, which is the stored session id.
C1_SingleCreation ==
  \A p \in Procs :
    (~disturbed /\ Done(p, "ensureSession"))
      => /\ proc[p].exc = "none"
         /\ createReqs = 1
         /\ nextId = 2
         /\ proc[p].retPage # NULL
         /\ proc[p].retPage = sessionId
         /\ sessionId = 1

\* a second, undisturbed ensureSession() call has returned
C1_Witness ==
  \E p \in Procs :
    /\ ~disturbed
    /\ Done(p, "ensureSession")
    /\ obs[p].startSid # NULL
    /\ obs[p].opCreates = 0
    /\ nOps >= 2

\* C2: whenever ensureSession() returns without raising, the returned page is
\* present and is the page of the browser connected for the stored session id.
C2_ReturnedPageIsCurrent ==
  \A p \in Procs :
    Returned(p, "ensureSession")
      => /\ proc[p].retPage # NULL
         /\ proc[p].retPage = browser
         /\ browser = sessionId

\* C3: a failed creation attempt is propagated to the caller of
\* ensureSession(), and the ensureSession() call that follows a failed creation
\* attempt issues a new create request.
C3_FailedCreationIsRetried ==
  \A p \in Procs :
    /\ (Done(p, "ensureSession") /\ obs[p].creationFailed) => proc[p].exc # "none"
    /\ (Done(p, "ensureSession") /\ obs[p].esAfterFail) => obs[p].opCreates >= 1

\* C4: handleError returns false, having issued no create request and keeping
\* the stored id, when no session id is stored or the service reported the
\* session live; it returns true only when the service reported another status
\* or the retrieval failed, and then a session created during the call is the
\* stored one; in those two cases it always attempts a creation.
C4_HandleErrorClassifies ==
  \A p \in Procs :
    Done(p, "handleError") =>
      LET o == obs[p]
          r == proc[p]
      IN /\ (o.heObs = "noid") <=> (o.startSid = NULL)
         /\ o.heObs \in {"noid", "live"}
              => /\ r.exc = "none"
                 /\ r.retBool = FALSE
                 /\ o.opCreates = 0
                 /\ sessionId = o.startSid
         /\ (r.exc = "none" /\ r.retBool = FALSE) => o.heObs \in {"noid", "live"}
         /\ (r.exc = "none" /\ r.retBool)
              => /\ o.heObs \in {"released", "retrieveFailed"}
                 /\ o.heNew >= 1
                 /\ sessionId # NULL
                 /\ sessionId # o.heEntrySid
         /\ o.heObs \in {"released", "retrieveFailed"} => o.opCreates >= 1

\* a handleError call found the session not live, recreated and returned true
C4_Witness ==
  \E p \in Procs :
    /\ Returned(p, "handleError")
    /\ proc[p].retBool
    /\ obs[p].heObs = "released"
    /\ obs[p].heNew >= 1

\* C5: when handleError found session A reported not live and its recreation
\* succeeded, the manager no longer holds the browser or page of A, and the
\* next ensureSession() returns the page of the stored session, which is not A.
C5_RecreatedSessionDiffers ==
  \A p \in Procs :
    /\ (Returned(p, "handleError") /\ proc[p].retBool /\ obs[p].heObs = "released")
         => /\ browser # obs[p].heEntrySid
            /\ page # obs[p].heEntrySid
            /\ sessionId # obs[p].heEntrySid
    /\ (Done(p, "ensureSession") /\ obs[p].esStale # NULL)
         => /\ proc[p].exc = "none"
            /\ proc[p].retPage # NULL
            /\ proc[p].retPage # obs[p].esStale
            /\ proc[p].retPage = sessionId
            /\ browser # obs[p].esStale
            /\ page # obs[p].esStale

\* the ensureSession() call after a successful recreation has returned
C5_Witness ==
  \E p \in Procs :
    /\ Returned(p, "ensureSession")
    /\ obs[p].esStale # NULL
    /\ proc[p].retPage # NULL
    /\ status[obs[p].esStale] = "released"

\* C6: within one handleError call at most one create request is issued.
C6_OneCreatePerHandleError ==
  \A p \in Procs : obs[p].heCreates <= 1

\* C7: when a page operation inside a handler failed because the session's
\* transport is dead, the invocation called handleError and did not return a
\* handler error result.
C7_HandlersPropagateConnectivityErrors ==
  \A p \in Procs :
    (Done(p, "tool") /\ obs[p].handlerConnErr)
      => /\ obs[p].heCalls >= 1
         /\ proc[p].result # "handler_error"

\* C8: a tool invoked with valid arguments while the stored session, whose
\* page the manager holds, is not live, with every creation attempt of the
\* invocation succeeding, recreates the session and returns the retry result.
C8_DeadSessionTriggersRetry ==
  \A p \in Procs :
    ( /\ Done(p, "tool")
      /\ proc[p].name \in TOOLS
      /\ ArgsValid(proc[p].name, proc[p].args)
      /\ obs[p].startSid # NULL
      /\ proc[p].locPage = obs[p].startSid
      /\ ~obs[p].startLive
      /\ ~obs[p].creationFailed )
      => /\ proc[p].result = "retry"
         /\ obs[p].heNew >= 1

NoSessionOrNetworkInteraction(p) ==
  /\ obs[p].opCreates = 0
  /\ obs[p].opRetrieves = 0
  /\ obs[p].opReleases = 0
  /\ obs[p].opConnects = 0

\* C9 as stated: a tool invoked with a missing or out-of-range required
\* argument returns an error result and issues no create, retrieve, release
\* or connect during the invocation, in every manager state.
C9_InvalidArgsNoInteraction ==
  \A p \in Procs :
    ( /\ Done(p, "tool")
      /\ proc[p].name \in TOOLS
      /\ ~ArgsValid(proc[p].name, proc[p].args) )
      => /\ proc[p].result = "handler_error"
         /\ NoSessionOrNetworkInteraction(p)

\* C9 amended: a tool invoked with a missing or out-of-range required argument
\* while the manager stores a session id returns an error result and issues
\* no create, retrieve, release or connect during the invocation.
C9_InvalidArgsNoInteractionWithSession ==
  \A p \in Procs :
    ( /\ Done(p, "tool")
      /\ proc[p].name \in TOOLS
      /\ ~ArgsValid(proc[p].name, proc[p].args)
      /\ obs[p].startSid # NULL )
      => /\ proc[p].exc = "none"
         /\ proc[p].result = "handler_error"
         /\ NoSessionOrNetworkInteraction(p)

\* an out-of-range wait was rejected while a session id was stored
C9_Witness ==
  \E p \in Procs :
    /\ Done(p, "tool")
    /\ proc[p].name = "wait"
    /\ proc[p].args.seconds = JsNum(15)
    /\ obs[p].startSid # NULL
    /\ proc[p].result = "handler_error"

\* C10: the steps of a tool invocation always form a prefix of acquire, act,
\* wait (only with a configured delay > 0), annotate, screenshot; an invocation
\* whose handler returned an error result ends right after act; an invocation
\* whose handler returned a result without error and in which nothing raised
\* ends with all the steps done.
C10_StepOrder ==
  \A p \in Procs :
    proc[p].kind = "tool" =>
      /\ IsPrefix(proc[p].steps, CanonicalSteps)
      /\ (proc[p].pc = "done" /\ proc[p].hres = "error" /\ proc[p].name \in TOOLS)
           => /\ proc[p].steps = <<"acquire", "act">>
              /\ proc[p].result = "handler_error"
      /\ (proc[p].pc = "done" /\ proc[p].hres = "ok" /\ proc[p].err = "none")
           => /\ proc[p].steps = CanonicalSteps
              /\ proc[p].result = "success"
      /\ (proc[p].pc = "done" /\ proc[p].result = "success")
           => proc[p].steps = CanonicalSteps

\* an invocation went through all five steps, the global wait included
C10_Witness ==
  \E p \in Procs :
    /\ Done(p, "tool")
    /\ proc[p].result = "success"
    /\ globalWaitSeconds > 0
    /\ Len(proc[p].steps) = 5

\* C11: a result returned by the dispatcher contains an image attachment
\* exactly when it is not an error result; a non-error result consists of the
\* handler's text content followed by exactly one image, which is last; an
\* error result consists of text only.
C11_ImageIffSuccess ==
  \A p \in Procs :
    Returned(p, "tool") =>
      LET c == proc[p].content
          images == {i \in 1..Len(c) : c[i] = "image"}
      IN /\ (images # {}) <=> ~proc[p].isError
         /\ ~proc[p].isError
              => /\ Len(c) >= 2
                 /\ images = {Len(c)}
                 /\ \A i \in 1..(Len(c) - 1) : c[i] = "text"
         /\ proc[p].isError => (Len(c) >= 1 /\ \A i \in 1..Len(c) : c[i] = "text")

\* a successful invocation returned the handler's text followed by the image
C11_Witness ==
  \E p \in Procs :
    /\ Returned(p, "tool")
    /\ ~proc[p].isError
    /\ proc[p].content = <<"text", "image">>

\* C12: when an exception was raised in the envelope, handleError was called
\* exactly once and the caller receives a result: the retry error result
\* without the original error when handleError returned true, and otherwise an
\* error result that carries the original error.
C12_EnvelopeErrorsClassified ==
  \A p \in Procs :
    (Done(p, "tool") /\ proc[p].err # "none")
      => /\ obs[p].heCalls = 1
         /\ proc[p].exc = "none"
         /\ proc[p].isError
         /\ proc[p].retBool
              => (proc[p].result = "retry" /\ proc[p].detail = "none")
         /\ ~proc[p].retBool
              => (proc[p].result = "surfaced" /\ proc[p].detail = proc[p].err)

\* C13: within one tool invocation the named handler is invoked at most once.
C13_HandlerAtMostOnce ==
  \A p \in Procs : obs[p].handlerRan <= 1

\* an invocation whose handler ran recreated the session and asked for a retry
C13_Witness ==
  \E p \in Procs :
    /\ Returned(p, "tool")
    /\ proc[p].result = "retry"
    /\ obs[p].handlerRan = 1
    /\ obs[p].heNew >= 1

\* C14: when the creation started by ensureSession inside a tool invocation
\* failed, that invocation issues no further create request.
C14_NoCreateAfterFailedAcquire ==
  \A p \in Procs :
    (proc[p].kind = "tool" /\ obs[p].acquireFailed) => obs[p].opCreates <= 1

\* C15: in remote mode, at every point, every session the manager has created
\* other than the one whose id it stores has had a release requested.
C15_SupersededSessionsReleased ==
  ~steelLocal =>
    \A s \in Sids : (status[s] # "none" /\ s # sessionId) => s \in released

\* C16: between operations a held page implies a held browser, a held browser
\* implies a stored session id, the held browser and page are those connected
\* for the stored session id, and after cleanup neither is held.
C16_HandlesBelongToCurrentSession ==
  \A p \in Procs :
    proc[p].pc \in {"idle", "done"} =>
      /\ page # NULL => browser # NULL
      /\ browser # NULL => sessionId # NULL
      /\ browser \in {NULL, sessionId}
      /\ page \in {NULL, sessionId}
      /\ Done(p, "cleanup") => (browser = NULL /\ page = NULL)

\* the manager holds the browser and page of a session that superseded another
C16_Witness ==
  /\ \A p \in Procs : proc[p].pc = "idle"
  /\ sessionId = 2
  /\ browser = 2
  /\ page = 2
  /\ status[1] # "none"

\* C17: cleanup() returns without raising and leaves the session id, the
\* browser and the page absent and the initialization flag false.
C17_CleanupResets ==
  \A p \in Procs :
    Done(p, "cleanup")
      => /\ proc[p].exc = "none"
         /\ sessionId = NULL
         /\ browser = NULL
         /\ page = NULL
         /\ ~isInitialized

\* cleanup() has returned although its release request failed
C17_Witness ==
  \E p \in Procs :
    /\ Done(p, "cleanup")
    /\ obs[p].opReleases = 1
    /\ obs[p].startSid # NULL
    /\ status[obs[p].startSid] = "live"

\* C18: cleanup() requests the release of the session exactly when the manager
\* runs in remote mode and stores a session id, and then of that id; in local
\* mode no release is ever requested.
C18_ReleaseOnlyRemote ==
  /\ \A p \in Procs :
       Done(p, "cleanup")
         => /\ (obs[p].opReleases = 1) <=> (~steelLocal /\ obs[p].startSid # NULL)
            /\ obs[p].opReleases <= 1
            /\ obs[p].opReleases = 1 => obs[p].startSid \in released
  /\ steelLocal => (released = {} /\ \A p \in Procs : obs[p].opReleases = 0)

\* cleanup() in remote mode has requested the release of the stored session
C18_Witness ==
  \E p \in Procs :
    /\ Done(p, "cleanup")
    /\ ~steelLocal
    /\ obs[p].opReleases = 1
    /\ obs[p].startSid \in released

\* C19: the ensureSession() call that follows cleanup() of a live session
\* issues a create request and, when it returns, returns the page of the
\* stored session, which is not the cleaned-up one.
C19_FreshCycleAfterCleanup ==
  \A p \in Procs :
    (Done(p, "ensureSession") /\ obs[p].esCleaned # NULL)
      => /\ obs[p].opCreates >= 1
         /\ proc[p].exc = "none"
              => /\ proc[p].retPage # NULL
                 /\ proc[p].retPage # obs[p].esCleaned
                 /\ proc[p].retPage = sessionId

\* ensureSession() has returned a page after cleanup() of a live session
C19_Witness ==
  \E p \in Procs :
    /\ Returned(p, "ensureSession")
    /\ obs[p].esCleaned # NULL
    /\ proc[p].retPage # NULL

\* C20: initialize() called while the manager holds the fully set up page and
\* browser of the stored session returns that page, issues no create or
\* release request and leaves the manager's state as it was.
C20_InitializeIdempotent ==
  \A p \in Procs :
    (Done(p, "initialize") /\ obs[p].startReady)
      => /\ proc[p].exc = "none"
         /\ proc[p].retPage = obs[p].startSid
         /\ obs[p].opCreates = 0
         /\ obs[p].opReleases = 0
         /\ sessionId = obs[p].startSid
         /\ browser = obs[p].startSid
         /\ page = obs[p].startSid

\* C21: a page returned by ensureSession() is the page of a session for which
\* every creation step succeeded, the page setup (annotation script, viewport,
\* console listener) included.
C21_OnlyCompleteSessionsHandedOut ==
  \A p \in Procs :
    (Returned(p, "ensureSession") /\ proc[p].retPage # NULL)
      => proc[p].retPage \in setupDone

\* Two invocations race when both are pending calls of ensureSession() that
\* found the manager uninitialized, the second one before the create request
\* of the first one completed.
Racing(p, q) ==
  /\ p # q
  /\ proc[p].kind = "ensureSession" /\ obs[p].startUninit
  /\ proc[q].kind = "ensureSession" /\ obs[q].startUninit
  /\ obs[p].startReqs = obs[q].startReqs

\* a created session that the manager neither references nor has asked, or is
\* asking, the service to release
Leaked(s) ==
  /\ s # NULL /\ s < nextId
  /\ s # sessionId
  /\ s \notin released
  /\ \A p \in Procs : ~(proc[p].pc = "cl_release" /\ proc[p].arg = s)

RaceCreatesTwoLeaksOne ==
  \A p, q \in Procs :
    Racing(p, q) =>
      /\ (proc[p].pc \notin SyncPcs \cup {"cns_create"}) => obs[p].opCreates = 1
      /\ (obs[p].created # NULL /\ obs[q].created # NULL) =>
            /\ obs[p].created # obs[q].created
            /\ sessionId \in {obs[p].created, obs[q].created}
            /\ \E s \in {obs[p].created, obs[q].created} : Leaked(s)

LeakPersists == \A s \in Sids : Leaked(s) => Leaked(s)'

\* C22: without mutual exclusion, two invocations interleaved at their awaits
\* that both call ensureSession() on the uninitialized manager each issue a
\* session create request, and when both requests succeed one of the two
\* sessions is leaked: the manager does not reference it, and it is not
\* released then or at any later time.
C22_RaceLeaksSession == []RaceCreatesTwoLeaksOne /\ [][LeakPersists]_vars

C22_Witness ==
  \E p, q \in Procs :
    /\ Racing(p, q)
    /\ obs[p].created # NULL /\ obs[q].created # NULL
    /\ sessionId = obs[q].created
    /\ Leaked(obs[p].created)
    /\ ~steelLocal
    /\ proc[p].pc = "done" /\ proc[q].pc = "done"

\* The invocation found a fully set-up session that was live and connected,
\* worked on its page, and the session is still live and connected.
Healthy(p) ==
  /\ obs[p].startReady
  /\ obs[p].startLive
  /\ proc[p].locPage = obs[p].startSid
  /\ Alive(obs[p].startSid)

TrailingImage(c) ==
  /\ Len(c) >= 1
  /\ {i \in 1..Len(c) : c[i] = "image"} = {Len(c)}

\* C23 as stated: for every tool, a call with valid arguments on a healthy
\* session returns a result with exactly one image attachment, in last place.
C23_ImageOnEveryValidCall ==
  \A p \in Procs :
    ( /\ Returned(p, "tool")
      /\ proc[p].name \in TOOLS
      /\ ArgsValid(proc[p].name, proc[p].args)
      /\ Healthy(p) )
      => TrailingImage(proc[p].content)

\* C23: for every tool, a call with valid arguments on a healthy session whose
\* handler returns a non-error result, and during which no exception is
\* raised, returns a non-error result with exactly one image attachment, in
\* last place.  (A handler's error result, such as that of go_back without
\* history, is returned as it is, without an image.)
C23_ImageOnNonErrorResult ==
  \A p \in Procs :
    ( /\ Returned(p, "tool")
      /\ proc[p].name \in TOOLS
      /\ ArgsValid(proc[p].name, proc[p].args)
      /\ Healthy(p)
      /\ proc[p].hres = "ok"
      /\ proc[p].err = "none" )
      => /\ ~proc[p].isError
         /\ TrailingImage(proc[p].content)

\* go_back on a healthy session went back and returned text and image
C23_Witness ==
  \E p \in Procs :
    /\ Returned(p, "tool")
    /\ proc[p].name = "go_back"
    /\ Healthy(p)
    /\ proc[p].hres = "ok"
    /\ proc[p].err = "none"
    /\ proc[p].content = <<"text", "image">>

\* C26: click and type return the "parameter is required" error result only
\* when a required field (label; for type also text) is missing from the
\* call; in particular every label the annotation script assigns, 0 included,
\* passes the validation.
C26_RequiredErrorOnlyWhenMissing ==
  \A p \in Procs :
    ( /\ Done(p, "tool")
      /\ proc[p].name \in {"click", "type"}
      /\ proc[p].detail = "required" )
      => \/ proc[p].args.label = Undefined
         \/ proc[p].name = "type" /\ proc[p].args.text = Undefined

\* C27: handleWait returns an error result and performs no delay when
\* `seconds` is not a number or lies outside [0, 10]; for a number within
\* [0, 10] it performs exactly one delay, of that many seconds; no delay of
\* handleWait is longer than 10 seconds.
C27_WaitBounded ==
  fn.f = "handleWait" =>
    LET seconds == fn.in
        inRange == /\ seconds.type = "number"
                   /\ seconds.num >= 0
                   /\ seconds.num <= 10
    IN /\ ~inRange => (fn.out.isError /\ fn.out.sleeps = <<>>)
       /\ inRange => (~fn.out.isError /\ fn.out.sleeps = <<seconds.num * 1000>>)
       /\ \A i \in 1..Len(fn.out.sleeps) : fn.out.sleeps[i] <= 10 * 1000

\* seconds = 15 was rejected without a delay
C27_Witness ==
  /\ fn.f = "handleWait"
  /\ fn.in = JsNum(15)
  /\ fn.out.isError
  /\ fn.out.sleeps = <<>>

\* the endpoint contains the text
Contains(s, pat) == indexOf(s, pat, 1) # 0

\* C28: in local mode every base URL whose scheme is http or https gives an
\* endpoint that begins with ws:// resp. wss://, continues with the rest of the
\* base URL and ends with the session id as a query parameter, and any other
\* base URL makes the creation fail; in remote mode the endpoint begins with
\* wss:// at the fixed host and carries the session id and the key.
C28_EndpointDerivation ==
  fn.f = "browserWSEndpoint" =>
    LET url == fn.in.url
        lower == toLowerCase(url)
        query == LocalQuery \o DecimalChars(fn.in.sid)
    IN IF fn.in.local
       THEN /\ startsWith(lower, HttpPrefix) =>
                 fn.out = WsPrefix \o SubSeq(url, Len(HttpPrefix) + 1, Len(url))
                            \o query
            /\ startsWith(lower, HttpsPrefix) =>
                 fn.out = WssPrefix \o SubSeq(url, Len(HttpsPrefix) + 1, Len(url))
                            \o query
            /\ ~startsWith(lower, HttpPrefix) /\ ~startsWith(lower, HttpsPrefix)
                 => fn.out = InvalidBaseURL
       ELSE /\ startsWith(fn.out, RemoteEndpointHead \o DecimalChars(fn.in.sid))
            /\ Contains(fn.out, ApiKeyParam \o fn.in.key)

\* C29: on a field whose value is v, type sets the value to the text t when
\* replaceText is true, and to v followed by t when replaceText is false or
\* omitted, for every v and every non-empty t.
C29_TypeReplacesOrAppends ==
  fn.f = "typeValue" =>
    /\ fn.in.text # <<>>
    /\ fn.in.replaceText = JsBool(TRUE) => fn.out = fn.in.text
    /\ fn.in.replaceText \in {JsBool(FALSE), Undefined}
         => fn.out = fn.in.v \o fn.in.text

\* "abc" followed by "def" without replaceText gave "abcdef"
C29_Witness ==
  /\ fn.f = "typeValue"
  /\ fn.in.v = <<"a", "b", "c">>
  /\ fn.in.text = <<"d", "e", "f">>
  /\ fn.in.replaceText = Undefined
  /\ fn.out = <<"a", "b", "c", "d", "e", "f">>

\* C24: the list operation returns exactly one URI screenshot://<name> per
\* stored name; reading a listed URI returns the bytes most recently stored
\* under its name; reading a URI that is not the URI of a stored name fails
\* with the not-found error.
C24_ListReadRoundTrip ==
  LET listed == [i \in 1..Len(screenshots) |->
                   screenshotURI(screenshots[i].name)]
  IN /\ resp.kind = "list" =>
          /\ resp.uris = listed
          /\ \A i, j \in 1..Len(listed) : listed[i] = listed[j] => i = j
     /\ resp.kind = "read" =>
          /\ \A i \in 1..Len(listed) :
               resp.uri = listed[i]
                 => (~resp.error /\ resp.blob = screenshots[i].bytes)
          /\ (\A i \in 1..Len(listed) : resp.uri # listed[i]) => resp.error

\* C25: after a successful tool invocation the annotated screenshot attached
\* to the result is a stored resource.
C25_AnnotatedScreenshotStored ==
  \A p \in Procs :
    (Returned(p, "tool") /\ proc[p].result = "success")
      => \E i \in 1..Len(screenshots) : screenshots[i].bytes = proc[p].image

\* the step is the completion of the screenshot of save_unmarked_screenshot
SaveCompletes(p) ==
  /\ proc[p].pc = "handler"
  /\ proc[p].ops = <<"screenshot">>
  /\ proc'[p].pc = "tc_afterHandler"
  /\ proc'[p].hres = "ok"

StoreStep ==
  /\ Len(screenshots') >= Len(screenshots)
  /\ \A i \in 1..Len(screenshots) : screenshots'[i].name = screenshots[i].name
  /\ \A i, j \in 1..Len(screenshots) :
       (screenshots'[i] # screenshots[i] /\ screenshots'[j] # screenshots[j])
         => i = j
  /\ screenshots' # screenshots
       => \E p \in Procs :
            /\ SaveCompletes(p)
            /\ \/ Len(screenshots') = Len(screenshots)
               \/ /\ Len(screenshots') = Len(screenshots) + 1
                  /\ SubSeq(screenshots', 1, Len(screenshots)) = screenshots
  /\ \A p \in Procs :
       SaveCompletes(p)
         => LET name == resourceNameOf(proc[p].args, nOps)
            IN /\ mapHas(screenshots', name)
               /\ mapGet(screenshots', name) = Bytes(nOps, FALSE)
               /\ \A i \in 1..Len(screenshots) :
                    screenshots[i].name # name => screenshots'[i] = screenshots[i]

\* C30: over any sequence of tool invocations, recreations and cleanups no
\* stored name is ever removed; the store changes only when a save completes,
\* which puts the new bytes under its name (replacing the bytes stored under
\* that name before, if any) and leaves every other entry as it was.
C30_StoreOnlyGrows == [][StoreStep]_vars

\* the third invocation saved again under the name of the first one, while
\* the entry of the second one kept its bytes
C30_Witness ==
  /\ Len(screenshots) = 2
  /\ screenshots[1].bytes = Bytes(3, FALSE)
  /\ screenshots[2].bytes = Bytes(2, FALSE)


\* C31: with STEEL_LOCAL unset the server starts exactly as with
\* STEEL_LOCAL="false" (cloud mode, given an authentication key), and startup
\* fails only when the mode is remote and there is no authentication key.
C31_ConfigurationDefaults ==
  fn.f = "startup" =>
    /\ fn.in.envLocal = Undefined => fn.out = startup(JsStr("false"), fn.in.key)
    /\ ~fn.out.started <=> (fn.in.envLocal # JsStr("true") /\ fn.in.key = <<>>)


\* C32: every tool invocation ends by returning a tagged result (success or
\* error): no exception escapes handleToolCall, whatever fails in the
\* envelope or in the recovery performed by handleError.
C32_NoExceptionEscapes ==
  \A p \in Procs :
    Done(p, "tool") =>
      /\ proc[p].exc = "none"
      /\ proc[p].result \in {"success", "handler_error", "retry", "surfaced"}


\* some frame of the call stack of r awaits at label l
Awaits(r, l) == \E i \in 1..Len(r.stack) : r.stack[i] = l

\* C33: a session-status retrieve request is issued only inside handleError,
\* that is only after an exception was caught in a tool invocation, and at
\* most once per call of handleError; an invocation that succeeds or ends
\* with a handler error (through ensureSession, initialize, the handler and
\* the post-processing) has issued none, and none is pending or issued while
\* no invocation is running.
C33_RetrieveOnlyInHandleError ==
  \A p \in Procs :
    /\ proc[p].pc = "he_retrieve"
         => /\ proc[p].kind = "tool"
            /\ proc[p].err # "none"
            /\ Awaits(proc[p], "tc_afterHE")
            /\ obs[p].inHE
    /\ obs[p].opRetrieves <= obs[p].heCalls
    /\ obs[p].opRetrieves > 0 => proc[p].err # "none"
    /\ (Done(p, "tool") /\ proc[p].result \in {"success", "handler_error"})
         => obs[p].opRetrieves = 0
    /\ (Awaits(proc[p], "tc_afterES") \/ proc[p].pc = "tc_afterES")
         => obs[p].opRetrieves = 0
    /\ proc[p].pc = "idle" => obs[p].opRetrieves = 0

\* a tool invocation on a held session raised an exception and the catch
\* clause's handleError has queried the session status
C33_Witness ==
  \E p \in Procs :
    /\ Done(p, "tool")
    /\ obs[p].startSid # NULL
    /\ proc[p].err # "none"
    /\ obs[p].opRetrieves = 1
    /\ obs[p].heCalls = 1


\* the createNewSession of p is superseding a session with a connected
\* browser: it took the cleanup branch and has not finished
Superseding(p) ==
  /\ obs[p].supBrowser # NULL
  /\ \/ proc[p].pc \in {"cns_afterCleanup", "cns_create"}
     \/ Awaits(proc[p], "cns_afterCleanup")

\* C34: when a session with a connected browser is superseded by a
\* recreation, the teardown of the old session is complete when the create
\* request for the new one is issued: the old transport is closed, the stored
\* id, handles and flag are cleared and, in remote mode, the release of the
\* old session was requested; no create request is issued during the
\* teardown, and the teardown never raises, so a failed release does not
\* prevent the creation.
C34_TeardownBeforeCreate ==
  \A p \in Procs :
    Superseding(p) =>
      /\ obs[p].opCreates = obs[p].supCreates
      /\ proc[p].pc = "cns_afterCleanup" => proc[p].exc = "none"
      /\ proc[p].pc = "cns_create" =>
           /\ proc[p].exc = "none"
           /\ transport[obs[p].supBrowser] = "closed"
           /\ sessionId = NULL
           /\ browser = NULL
           /\ page = NULL
           /\ ~isInitialized
           /\ (~steelLocal /\ obs[p].supSid # NULL)
                => obs[p].supSid \in released

\* the create request of a recreation is about to be issued after a teardown
\* whose release request failed (the old session is still live)
C34_Witness ==
  \E p \in Procs :
    /\ proc[p].pc = "cns_create"
    /\ obs[p].supBrowser # NULL
    /\ ~steelLocal
    /\ obs[p].supSid \in released
    /\ status[obs[p].supSid] = "live"
    /\ obs[p].opReleases = 1


\* r is at a step of createNewSession or of cleanup
InCreateOrCleanup(r) ==
  r.pc \in {"cns", "cns_afterCleanup", "cns_create", "cns_connect",
            "cns_pages", "cl", "cl_release", "cl_close"}

\* C35 (as stated): the manager's fields (session id, transport handle, page
\* handle, initialization flag) change only in steps of createNewSession and
\* cleanup; every other step, those of initialize included, leaves all four
\* unchanged.
C35_FieldsChangeOnlyInCreateAndCleanup ==
  [][mgrVars' # mgrVars
       => \E p \in Procs : proc'[p] # proc[p] /\ InCreateOrCleanup(proc[p])]_vars

\* C35 (amended): the manager's fields change only in steps of
\* createNewSession, of cleanup and of initialize; initialize changes only the
\* initialization flag, which it sets once its createNewSession has returned
\* without raising.  ensureSession, the annotation-script injection, the tool
\* handlers and the dispatcher's post-processing leave all four unchanged.
C35_FieldsChangeOnlyInManagerLifecycle ==
  [][mgrVars' # mgrVars
       => \E p \in Procs :
            /\ proc'[p] # proc[p]
            /\ \/ InCreateOrCleanup(proc[p])
               \/ /\ proc[p].pc = "init_after"
                  /\ proc[p].exc = "none"
                  /\ <<sessionId, browser, page>>' = <<sessionId, browser, page>>
                  /\ isInitialized']_vars

\* a tool invocation that started on an uninitialized manager has come back
\* from ensureSession: initialize has set the flag after its creation
C35_Witness ==
  \E p \in Procs :
    /\ proc[p].kind = "tool"
    /\ proc[p].pc = "tc_afterES"
    /\ proc[p].exc = "none"
    /\ obs[p].startUninit
    /\ obs[p].opCreates = 1
    /\ isInitialized
    /\ sessionId # NULL


\* C36: whenever handleError returns false, the session id, browser, page and
\* initialization flag are what they were before the call and no create or
\* release request was issued during the call; with no stored session id it
\* returns false without any request to the service.
C36_HandleErrorFalseIsInert ==
  \A p \in Procs :
    (Returned(p, "handleError") /\ ~proc[p].retBool) =>
      /\ mgrVars = obs[p].startMgr
      /\ obs[p].opCreates = 0
      /\ obs[p].opReleases = 0
      /\ obs[p].opConnects = 0
      /\ obs[p].startMgr[1] = NULL => obs[p].opRetrieves = 0
      /\ obs[p].startMgr[1] # NULL => obs[p].opRetrieves = 1

\* handleError has returned false on a manager holding a connected session,
\* after one retrieve request
C36_Witness ==
  \E p \in Procs :
    /\ Returned(p, "handleError")
    /\ ~proc[p].retBool
    /\ obs[p].opRetrieves = 1
    /\ sessionId # NULL
    /\ browser = sessionId
    /\ isInitialized

\* C37: in remote mode, when the process exits in response to SIGINT or
\* SIGTERM, at whatever point of a tool invocation the signal arrived, every
\* session that was created has had its release requested and no transport
\* is left open.
C37_ExitReleasesEverySession ==
  Exited =>
    \A s \in Sids :
      status[s] # "none" => (s \in released /\ transport[s] # "open")

====
